---------------------------- MODULE Spec2Model ----------------------------
(***************************************************************************)
(* Verification model of egemenmermer/eufy-automation.                     *)
(*                                                                         *)
(*   Access Validator : src/src/utils/accessTokens.js (AccessTokenManager) *)
(*                      and the GET /access/unlock handler of              *)
(*                      src/unnamed/part_013 (WebServer)                   *)
(*   Code Generator   : src/unnamed/part_010 (DoorCodeGenerator)           *)
(*   Orchestrator     : src/unnamed/part_011 (AutomationEngine), and its   *)
(*                      calendar revision with the same fields,            *)
(*                      src/src/services/automationEngine.js, which        *)
(*                      src/src/index.js runs                              *)
(*                                                                         *)
(* Each component has its own specification over the shared variables:     *)
(* SpecTokens, SpecGen, SpecEngine, SpecLifecycle, SpecWebhook and         *)
(* SpecCalendar.  Time is counted in minutes.                              *)
(***************************************************************************)
EXTENDS Integers, Sequences, FiniteSets, TLC

VARIABLES
    now,              \* the wall clock (new Date(), moment()), in minutes
    \* ---- AccessTokenManager ----
    activeTokens,     \* this.activeTokens : Map token -> tokenData
    activeCodes,      \* this.activeCodes  : Map code  -> codeData
    sweepTimers,      \* pending setTimeout handles of generateAccessToken/Code
    nextToken,        \* number of tokens drawn so far from crypto.randomBytes(32)
    codesIssued,      \* number of generateAccessCode calls so far
    requests,         \* in-flight GET /access/unlock handlers
    \* ---- history of the Access Validator (observation only) ----
    focus,            \* which store the behaviour exercises: "tokens" or "codes"
    grantCount,       \* per token: how many validations returned valid
    rejectedOutside,  \* credentials that were denied for being outside the window
    lastValidation,   \* the answer of the validation made by the last step, if any
    \* ---- DoorCodeGenerator ----
    usedCodes,        \* this.usedCodes : Set of codes, in insertion order
    codeHistory,      \* this.codeHistory : Map appointmentId -> {code, generatedAt}
    \* ---- history of the Code Generator (observation only) ----
    genCalls,         \* number of generateCode calls so far
    issuedCodes,      \* every code a generateCode call has returned
    latestIssued,     \* per appointment id: the code generateCode returned last
    genObs,           \* the generateCode / validateCode call of the last step
    \* ---- AutomationEngine ----
    isRunning,        \* this.isRunning
    isInitialized,    \* this.isInitialized
    cronJobs,         \* this.cronJobs: "none" until set up, "stopped" or "started"
    stopping,         \* a stop() call is suspended at one of its awaits
    hook,             \* the POST /webhook/amelia/booking handler in progress
    processedAppointments, \* this.processedAppointments : Set of keys
    processedEvents,  \* calendarService.processedEvents : Set of keys
    activeLockTimers, \* this.activeLockTimers : Map appointment id -> timer
    pendingTimers,    \* setTimeout handles of scheduleAutoLock not yet expired
    lockCalls,        \* timer callbacks suspended in eufyService.lockDoor()
    nextTimer,        \* number of the next setTimeout handle
    cycles,           \* the processUpcomingAppointments calls in progress
    \* ---- history of the Orchestrator (observation only) ----
    polls,            \* number of poll ticks so far
    overlapped,       \* a poll tick fired while another cycle was in progress
    handled,          \* per occurrence: codes generated, door unlocks, emails
                      \* sent, timers armed
    stops,            \* number of stop() calls so far
    webhooks,         \* number of webhook deliveries so far
    cancelledTimers,  \* the timers cleared before they fired, and by what
    stopSurvivors,    \* handles of the timers still armed when stop() had run
    stopReturned,     \* a stop() call has returned
    lockedAfterStop,  \* stop survivors that fired after stop() had returned
    failedLocks,      \* the timer callbacks whose lockDoor() call threw
    engineObs,        \* what the last step of the Orchestrator showed
    \* ---- POST /access/code ----
    codeRequest,      \* the POST /access/code handler in progress
    \* ---- history of the door code endpoint (observation only) ----
    codeEntries,      \* number of POST /access/code requests so far
    grantedCodes,     \* the codes a request has unlocked the door with
    entryObs          \* the answer the handler gave in the last step, if any

tokenVars == <<activeTokens, activeCodes, sweepTimers, nextToken, codesIssued,
               requests,
               focus, grantCount, rejectedOutside, lastValidation>>

genVars == <<usedCodes, codeHistory, genCalls, issuedCodes, latestIssued, genObs>>

engineVars == <<isRunning, isInitialized, cronJobs, stopping, hook,
                processedAppointments, processedEvents, activeLockTimers, pendingTimers,
                lockCalls, nextTimer, cycles, polls, overlapped, handled,
                stops, webhooks, cancelledTimers, stopSurvivors, stopReturned,
                lockedAfterStop, failedLocks, engineObs>>

entryVars == <<codeRequest, codeEntries, grantedCodes, entryObs>>

-----------------------------------------------------------------------------
(* Bounds of the model *)

MaxNow == 90          \* the clock stops advancing here
TickMinutes == 15     \* granularity of the clock
MaxTokens == 2        \* tokens issued in one behaviour
MaxAccessCodes == 1   \* distinct values Math.random() yields for access codes
MaxCodeIssues == 2    \* access codes issued in one behaviour

MaxGenCalls == 2      \* generateCode calls in one behaviour
GenTickMinutes == 1440\* granularity of the clock of the Code Generator
MaxGenNow == 2880     \* the clock of the Code Generator stops advancing here

MaxPolls == 2         \* poll ticks in one behaviour
MaxPollNow == 2       \* the clock stops advancing minute by minute here
MaxStops == 1         \* stop() calls in one behaviour
MaxWebhooks == 1      \* webhook deliveries in one behaviour

MaxCandidateLength == 4  \* digits of a candidate given to isCodeSecure
MaxShortfall == 3        \* usedCodes begins at most this far below its cap
MaxEarlierEvents == 100  \* events the calendar service recorded earlier

MaxCodeEntries == 2   \* POST /access/code requests in one behaviour
EntryTickMinutes == 8 \* granularity of the clock of the door code endpoint
MaxEntryNow == 24     \* the clock of the door code endpoint stops here

(* Program constants *)

BookingCodeLength == 4          \* length: 4
StartingSoonMinutes == 5        \* getAppointmentsStartingSoon(5)
JustStartedMinutes == 1         \* now.clone().subtract(1, 'minute')
MinLockDelayMinutes == 1        \* Math.max(timeUntilLock, 60000)
ProcessedRetentionMinutes == 1440 \* moment().subtract(24, 'hours')
SessionDurationIceBath == 15    \* 'Ice bath': 15
SessionDurationDefault == 30    \* default: 30
BufferTimeMinutes == 5          \* BUFFER_TIME_MINUTES || 5
TimerRetentionMinutes == 1440   \* 24 * 60 * 60 * 1000
EventWindowMinutes == 3         \* diffMinutes >= 0 && diffMinutes <= 3
ProcessedEventsLimit == 100     \* cleanupProcessedEvents: initialSize > 100
LockDurationMinutes == 5        \* LOCK_DURATION_MINUTES || 5

(* The environment *)

ProcessStartEpochMinutes == 29892000 \* Date.now() when the process starts
LoopUptimeAtConstruction == 1   \* event loop time when the engine is built

DefaultCodeLength == 4          \* this.codeLength = 4
DefaultMaxAttempts == 100       \* maxAttempts = 100
UsedCodesCap == 1000            \* if (this.usedCodes.size > 1000)
HistoryRetentionMinutes == 1440 \* Date.now() - 24 * 60 * 60 * 1000

LeadMinutes == 15     \* moment(startTime).subtract(15, 'minutes')
TrailMinutes == 30    \* moment(endTime).add(30, 'minutes')
AccessCodeBase == 100000  \* Math.floor(100000 + Math.random() * 900000)

-----------------------------------------------------------------------------
(* JavaScript Map helpers: a Map is a function whose DOMAIN is its key set *)

MapHas(m, k) == k \in DOMAIN m
MapSet(m, k, v) == [x \in (DOMAIN m) \cup {k} |-> IF x = k THEN v ELSE m[x]]
MapDelete(m, k) == [x \in (DOMAIN m) \ {k} |-> m[x]]
EmptyMap == [x \in {} |-> 0]

Max(a, b) == IF a >= b THEN a ELSE b
Min(a, b) == IF a <= b THEN a ELSE b

-----------------------------------------------------------------------------
(* Access Validator: inputs *)

\* The events (reservations) a credential can be issued for.
Events ==
    { [id |-> 1, startTime |-> 2 * TickMinutes, endTime |-> 3 * TickMinutes],
      [id |-> 2, startTime |-> 1 * TickMinutes, endTime |-> 2 * TickMinutes] }

Tokens == 1 .. MaxTokens
AccessCodes == { AccessCodeBase + r : r \in 0 .. (MaxAccessCodes - 1) }
\* The HTTP requests that can be in flight at the same time.
Requests == {"reqA", "reqB"}

\* tokenData / codeData as created by generateAccessToken / generateAccessCode
\* (attendeeEmail, title and generated are carried along and never read by
\* the validator; they are left out).  usedAt is absent until the credential
\* is used.
NewCredential(event) ==
    [eventId |-> event.id, startTime |-> event.startTime,
     endTime |-> event.endTime, used |-> FALSE]

\* accessStart / accessEnd as both validators compute them.
AccessStart(data) == data.startTime - LeadMinutes
AccessEnd(data) == data.endTime + TrailMinutes

\* getTokenLifetime(event): expiry.diff(moment())
getTokenLifetime(event, t) == (event.endTime + TrailMinutes) - t

\* setTimeout(cb, delay): due no earlier than the current instant.
TimerDue(t, delay) == t + Max(delay, 0)

\* "Mark as used": tokenData.used = true; tokenData.usedAt = now
MarkUsedSkipped(data, t) == data

MarkUsed(data, t) ==
    [x \in (DOMAIN data) \cup {"usedAt"} |->
        IF x = "used" THEN TRUE ELSE IF x = "usedAt" THEN t ELSE data[x]]

\* The window tests of the validators.
TooEarly(data, t) == t < AccessStart(data)

ExpiredAtBoundary(data, t) == t >= AccessEnd(data)

Expired(data, t) == t > AccessEnd(data)

-----------------------------------------------------------------------------
(* validateAccessToken(token) as a function of the store and the clock:      *)
(* returns the answer and the store after the call.                          *)

validateTokenWindowFirst(store, token, t) ==
    IF ~MapHas(store, token)
    THEN [valid |-> FALSE, reason |-> "Token not found", store |-> store]
    ELSE LET data == store[token] IN
         IF TooEarly(data, t)
         THEN [valid |-> FALSE, reason |-> "Too early", store |-> store]
         ELSE IF Expired(data, t)
         THEN [valid |-> FALSE, reason |-> "Token expired", store |-> store]
         ELSE IF data.used
         THEN [valid |-> FALSE, reason |-> "Token already used", store |-> store]
         ELSE [valid |-> TRUE, reason |-> "Access granted",
               store |-> MapSet(store, token, MarkUsed(data, t))]

validateAccessToken(store, token, t) ==
    IF ~MapHas(store, token)
    THEN [valid |-> FALSE, reason |-> "Token not found", store |-> store]
    ELSE LET data == store[token] IN
         IF data.used
         THEN [valid |-> FALSE, reason |-> "Token already used", store |-> store]
         ELSE IF TooEarly(data, t)
         THEN [valid |-> FALSE, reason |-> "Too early", store |-> store]
         ELSE IF Expired(data, t)
         THEN [valid |-> FALSE, reason |-> "Token expired", store |-> store]
         ELSE [valid |-> TRUE, reason |-> "Access granted",
               store |-> MapSet(store, token, MarkUsed(data, t))]

\* validateAccessCode(code): same order, one combined window test.
validateAccessCode(store, code, t) ==
    IF ~MapHas(store, code)
    THEN [valid |-> FALSE, reason |-> "Invalid code", store |-> store]
    ELSE LET data == store[code] IN
         IF data.used
         THEN [valid |-> FALSE, reason |-> "Code already used", store |-> store]
         ELSE IF TooEarly(data, t) \/ Expired(data, t)
         THEN [valid |-> FALSE, reason |-> "Code not valid at this time",
               store |-> store]
         ELSE [valid |-> TRUE, reason |-> "Access granted",
               store |-> MapSet(store, code, MarkUsed(data, t))]

\* What the validation call of a step is remembered as: its answer, the
\* credential as it was before the call (pre), whether the token had been
\* granted before, and the requests suspended in unlockDoor for the same token.
Observation(kind, key, store, res, conc) ==
    [kind |-> kind, key |-> key, valid |-> res.valid, reason |-> res.reason,
     pre |-> IF MapHas(store, key) THEN {store[key]} ELSE {},
     grantedBefore |-> IF kind = "token" THEN grantCount[key] > 0 ELSE FALSE,
     concurrent |-> conc]

NoObservation ==
    [kind |-> "none", key |-> 0, valid |-> FALSE, reason |-> "",
     pre |-> {}, grantedBefore |-> FALSE, concurrent |-> {}]

OutsideReasons == {"Too early", "Token expired", "Code not valid at this time"}

-----------------------------------------------------------------------------
(* Access Validator: actions *)

InitTokens ==
    /\ now = 0
    /\ activeTokens = EmptyMap
    /\ activeCodes = EmptyMap
    /\ sweepTimers = {}
    /\ nextToken = 0
    /\ codesIssued = 0
    /\ requests = [r \in Requests |-> [pc |-> "idle", token |-> 0]]
    /\ grantCount = [t \in Tokens |-> 0]
    /\ rejectedOutside = {}
    /\ lastValidation = NoObservation

\* The clock advances.
Tick ==
    /\ now + TickMinutes <= MaxNow
    /\ now' = now + TickMinutes

TickTokens ==
    /\ Tick
    /\ lastValidation' = NoObservation
    /\ UNCHANGED <<activeTokens, activeCodes, sweepTimers, nextToken,
                   codesIssued, requests, focus, grantCount, rejectedOutside>>

\* generateAccessToken(event): a fresh 256-bit random token.
GenerateAccessToken(event) ==
    /\ focus = "tokens"
    /\ nextToken < MaxTokens
    /\ LET token == nextToken + 1 IN
        /\ nextToken' = token
        /\ activeTokens' = MapSet(activeTokens, token, NewCredential(event))
        /\ sweepTimers' = sweepTimers \cup
              {[kind |-> "token", key |-> token,
                due |-> TimerDue(now, getTokenLifetime(event, now))]}
    /\ lastValidation' = NoObservation
    /\ UNCHANGED <<now, activeCodes, codesIssued, requests, focus, grantCount,
                   rejectedOutside>>

\* generateAccessCode(event): Math.random() may repeat a code that is stored.
GenerateAccessCode(event, code) ==
    /\ focus = "codes"
    /\ codesIssued < MaxCodeIssues
    /\ codesIssued' = codesIssued + 1
    /\ activeCodes' = MapSet(activeCodes, code, NewCredential(event))
    /\ sweepTimers' = sweepTimers \cup
          {[kind |-> "code", key |-> code,
            due |-> TimerDue(now, getTokenLifetime(event, now))]}
    /\ lastValidation' = NoObservation
    /\ UNCHANGED <<now, activeTokens, nextToken, requests, focus, grantCount,
                   rejectedOutside>>

\* The setTimeout callback of generateAccessToken: cleanupExpiredToken(token).
SweepToken(timer) ==
    /\ timer \in sweepTimers
    /\ timer.kind = "token"
    /\ now >= timer.due
    /\ sweepTimers' = sweepTimers \ {timer}
    /\ activeTokens' = IF MapHas(activeTokens, timer.key)
                       THEN MapDelete(activeTokens, timer.key)
                       ELSE activeTokens
    /\ lastValidation' = NoObservation
    /\ UNCHANGED <<now, activeCodes, nextToken, codesIssued, requests, focus,
                   grantCount, rejectedOutside>>

\* The setTimeout callback of generateAccessCode: cleanupExpiredCode(code).
SweepCode(timer) ==
    /\ timer \in sweepTimers
    /\ timer.kind = "code"
    /\ now >= timer.due
    /\ sweepTimers' = sweepTimers \ {timer}
    /\ activeCodes' = IF MapHas(activeCodes, timer.key)
                      THEN MapDelete(activeCodes, timer.key)
                      ELSE activeCodes
    /\ lastValidation' = NoObservation
    /\ UNCHANGED <<now, activeTokens, nextToken, codesIssued, requests, focus,
                   grantCount, rejectedOutside>>

\* GET /access/unlock with the used=true write left for after the await: the
\* check runs before the suspension point, the write is not made before it.
UnlockRequestCheckOnly(r, token) ==
    /\ focus = "tokens"
    /\ requests[r].pc = "idle"
    /\ LET res == validateAccessToken(activeTokens, token, now)
           conc == {q \in Requests \ {r} :
                      requests[q].pc = "unlocking" /\ requests[q].token = token}
       IN
        /\ activeTokens' = activeTokens
        /\ lastValidation' = Observation("token", token, activeTokens, res, conc)
        /\ requests' = IF res.valid
                       THEN [requests EXCEPT ![r] =
                                [pc |-> "unlocking", token |-> token]]
                       ELSE requests
        /\ grantCount' = IF res.valid
                         THEN [grantCount EXCEPT ![token] = @ + 1]
                         ELSE grantCount
        /\ rejectedOutside' =
              IF res.reason \in OutsideReasons
              THEN rejectedOutside \cup {<<"token", token>>}
              ELSE rejectedOutside
    /\ UNCHANGED <<now, activeCodes, sweepTimers, nextToken, codesIssued, focus>>

\* GET /access/unlock with the test of validation.valid left out: the
\* handler goes on to unlockDoor whatever the validator answered.
UnlockRequestRegardless(r, token) ==
    /\ focus = "tokens"
    /\ requests[r].pc = "idle"
    /\ LET res == validateAccessToken(activeTokens, token, now)
           conc == {q \in Requests \ {r} :
                      requests[q].pc = "unlocking" /\ requests[q].token = token}
       IN
        /\ activeTokens' = res.store
        /\ lastValidation' = Observation("token", token, activeTokens, res, conc)
        /\ requests' = [requests EXCEPT ![r] =
                          [pc |-> "unlocking", token |-> token]]
        /\ grantCount' = IF res.valid
                         THEN [grantCount EXCEPT ![token] = @ + 1]
                         ELSE grantCount
        /\ rejectedOutside' =
              IF res.reason \in OutsideReasons
              THEN rejectedOutside \cup {<<"token", token>>}
              ELSE rejectedOutside
    /\ UNCHANGED <<now, activeCodes, sweepTimers, nextToken, codesIssued, focus>>

\* GET /access/unlock without a token parameter: the handler answers 400
\* and does not call the validator.
UnlockRequestWithoutToken(r) ==
    /\ focus = "tokens"
    /\ requests[r].pc = "idle"
    /\ lastValidation' = NoObservation
    /\ UNCHANGED <<now, activeTokens, activeCodes, sweepTimers, nextToken,
                   codesIssued, requests, focus, grantCount, rejectedOutside>>

\* GET /access/unlock?token=..., up to its first suspension point: the
\* validation runs synchronously; a denied request is answered at once (403),
\* a granted one suspends in `await this.eufyService.unlockDoor(...)`.
UnlockRequest(r, token) ==
    /\ focus = "tokens"
    /\ requests[r].pc = "idle"
    /\ LET res == validateAccessToken(activeTokens, token, now)
           conc == {q \in Requests \ {r} :
                      requests[q].pc = "unlocking" /\ requests[q].token = token}
       IN
        /\ activeTokens' = res.store
        /\ lastValidation' = Observation("token", token, activeTokens, res, conc)
        /\ requests' = IF res.valid
                       THEN [requests EXCEPT ![r] =
                                [pc |-> "unlocking", token |-> token]]
                       ELSE requests
        /\ grantCount' = IF res.valid
                         THEN [grantCount EXCEPT ![token] = @ + 1]
                         ELSE grantCount
        /\ rejectedOutside' =
              IF res.reason \in OutsideReasons
              THEN rejectedOutside \cup {<<"token", token>>}
              ELSE rejectedOutside
    /\ UNCHANGED <<now, activeCodes, sweepTimers, nextToken, codesIssued, focus>>

\* how the unlockDoor call of the handler settles: with {success: true}, or
\* with {success: false} or a rejection, which are both answered 500
UnlockOutcomes == {"unlocked", "failed"}

\* What the end of a GET /access/unlock request is remembered as: the token,
\* how unlockDoor settled (reason) and the stored token after the step (pre)
SettledObservation(token, outcome, store) ==
    [kind |-> "unlockSettled", key |-> token, valid |-> FALSE,
     reason |-> outcome,
     pre |-> IF MapHas(store, token) THEN {store[token]} ELSE {},
     grantedBefore |-> FALSE, concurrent |-> {}]

\* The handler with a catch that gives the token back: after a failed or
\* raised unlockDoor() the stored token is marked unused again.
UnlockSettledRollsBack(r) ==
    /\ requests[r].pc = "unlocking"
    /\ requests' = [requests EXCEPT ![r] = [pc |-> "idle", token |-> 0]]
    /\ \E outcome \in UnlockOutcomes :
          /\ activeTokens' =
                IF outcome # "unlocked" /\ MapHas(activeTokens, requests[r].token)
                THEN [activeTokens EXCEPT ![requests[r].token].used = FALSE]
                ELSE activeTokens
          /\ lastValidation' =
                SettledObservation(requests[r].token, outcome, activeTokens')
    /\ UNCHANGED <<now, activeCodes, sweepTimers, nextToken,
                   codesIssued, focus, grantCount, rejectedOutside>>

\* The unlockDoor call of a granted request settles and the response is
\* sent: the success page, or 500 when the result is a failure or the call
\* raised.  The token store is not touched.
UnlockSettled(r) ==
    /\ requests[r].pc = "unlocking"
    /\ requests' = [requests EXCEPT ![r] = [pc |-> "idle", token |-> 0]]
    /\ \E outcome \in UnlockOutcomes :
          lastValidation' =
             SettledObservation(requests[r].token, outcome, activeTokens)
    /\ UNCHANGED <<now, activeTokens, activeCodes, sweepTimers, nextToken,
                   codesIssued, focus, grantCount, rejectedOutside>>

\* validateAccessCode(code), called directly.
PresentCode(code) ==
    /\ focus = "codes"
    /\ LET res == validateAccessCode(activeCodes, code, now) IN
        /\ activeCodes' = res.store
        /\ lastValidation' = Observation("code", code, activeCodes, res, {})
        /\ rejectedOutside' =
              IF res.reason \in OutsideReasons
              THEN rejectedOutside \cup {<<"code", code>>}
              ELSE rejectedOutside
    /\ UNCHANGED <<now, activeTokens, sweepTimers, nextToken, codesIssued,
                   requests, focus, grantCount>>


-----------------------------------------------------------------------------
(* Code Generator: inputs *)

\* appointment ids (appointment.id.toString())
AppointmentIds == {"101", "102"}

\* options.length
LengthOptions == {1, DefaultCodeLength}

\* options.maxAttempts
MaxAttemptsOptions == {1, DefaultMaxAttempts}

\* values of crypto.randomBytes(n)[i]
RandomBytes == {0, 11}

\* the digits of the candidates given to isCodeSecure
CandidateDigits == {0, 1, 2, 4, 5}

\* the random source of one generateCode call repeats with this period
DrawPeriod == {1, 2}

\* values of parseInt(hash.substring(0, 8), 16), the hash being the md5 of
\* `${appointmentId}-${timestamp}`: those of "101-1793540000000" (code 8004),
\* "101-1793540006146" (1234), "101-1793540016889" (1010) and
\* "101-1793540011791" (1111)
HashValues == {313324004, 121851234, 651573010, 1907559111}

\* options.excludePatterns: the default list, or every 4-digit string but one
ExcludeOptions ==
    { [kind |-> "default"], [kind |-> "allBut", keep |-> <<0, 1, 0, 1>>] }

\* excludePatterns.includes(code)
Excluded(code, excl) ==
    IF excl.kind = "default"
    THEN \E d \in 0 .. 9 : code = <<d, d, d, d>>
    ELSE Len(code) = DefaultCodeLength /\ code # excl.keep

\* Math.ceil(length / 2)
ByteCount(length) == (length + 1) \div 2

\* the outcomes of crypto.randomBytes(Math.ceil(length / 2))
ByteTuples(length) == [1 .. ByteCount(length) -> RandomBytes]

-----------------------------------------------------------------------------
(* Code Generator: functions.  A code is the sequence of its digits. *)

\* generateRandomNumericCode(length), given the random bytes drawn
generateRandomNumericCode(length, randomBytes) ==
    [i \in 1 .. length |->
        randomBytes[((i - 1) % Len(randomBytes)) + 1] % 10]

\* hasSimplePattern(code): both loops start at index 1, so a code of fewer
\* than two digits is reported as ascending.
IsAscending(code) == \A i \in 2 .. Len(code) : code[i] = code[i - 1] + 1
IsDescending(code) == \A i \in 2 .. Len(code) : code[i] = code[i - 1] - 1
\* hasSimplePattern(code) without its second loop
hasSimplePatternAscendingOnly(code) == IsAscending(code)

hasSimplePattern(code) == IsAscending(code) \/ IsDescending(code)

\* this.usedCodes.has(code)
SetHas(codes, code) == \E i \in 1 .. Len(codes) : codes[i] = code

\* this.usedCodes.add(code): a Set keeps insertion order and no duplicates
SetAdd(codes, code) == IF SetHas(codes, code) THEN codes ELSE Append(codes, code)

\* isCodeSecure(code, excludePatterns)
isCodeSecure(code, excl, used) ==
    /\ ~Excluded(code, excl)
    /\ ~SetHas(used, code)
    /\ ~hasSimplePattern(code)

\* number.toString() of a non-negative integer
RECURSIVE ToDigits(_)
ToDigits(n) == IF n < 10 THEN <<n>> ELSE Append(ToDigits(n \div 10), n % 10)

\* generateTimeBased(appointmentId), given the leading 32 bits of the md5
generateTimeBased(hash) == ToDigits((hash % 9000) + 1000)

\* The while loop of generateCode.  The random source is periodic: attempt k
\* (counted from 0) draws draws[k mod Len(draws)].
RECURSIVE RandomLoop(_, _, _, _, _, _)
RandomLoop(attempts, maxAttempts, length, excl, used, draws) ==
    IF ~(attempts < maxAttempts)
    THEN [found |-> FALSE, code |-> <<>>, attempts |-> attempts]
    ELSE IF ~(attempts < Len(draws))
    THEN \* a whole period was rejected and nothing the test reads changes
         \* inside the loop: the remaining attempts are rejected as well
         [found |-> FALSE, code |-> <<>>, attempts |-> maxAttempts]
    ELSE LET code == generateRandomNumericCode(
                        length, draws[(attempts % Len(draws)) + 1])
         IN  IF isCodeSecure(code, excl, used)
             THEN [found |-> TRUE, code |-> code, attempts |-> attempts + 1]
             ELSE RandomLoop(attempts + 1, maxAttempts, length, excl, used, draws)

\* cleanupOldCodes() with codesArray.slice(0, keepCount): the oldest half is
\* kept
EvictOldCodesKeepsOldest(codes) ==
    IF Len(codes) > UsedCodesCap
    THEN LET keepCount == Len(codes) \div 2
         IN  SubSeq(codes, 1, keepCount)
    ELSE codes

\* cleanupOldCodes(), first half: codesArray.slice(-keepCount) on overflow
EvictOldCodes(codes) ==
    IF Len(codes) > UsedCodesCap
    THEN LET keepCount == Len(codes) \div 2
         IN  IF keepCount = 0 THEN codes
             ELSE SubSeq(codes, Len(codes) - keepCount + 1, Len(codes))
    ELSE codes

\* cleanupOldCodes(), second half: drop history older than 24 hours
PruneHistory(history, t) ==
    LET cutoffTime == t - HistoryRetentionMinutes
        kept == {a \in DOMAIN history : ~(history[a].generatedAt < cutoffTime)}
    IN  [a \in kept |-> history[a]]

\* doorCodeGenerator.validateCode with its appointment argument left out: a
\* code is accepted when the history holds it for any appointment
validateCodeAnyAppointment(history, code, appointmentId) ==
    \E a \in DOMAIN history : history[a].code = code

\* validateCode(code, appointmentId): codeData && codeData.code === code,
\* read for its truthiness
validateCode(history, code, appointmentId) ==
    /\ MapHas(history, appointmentId)
    /\ history[appointmentId].code = code

\* getCodeForAppointment(appointmentId), as a set: empty for null
getCodeForAppointment(history, appointmentId) ==
    IF MapHas(history, appointmentId) THEN {history[appointmentId]} ELSE {}

-----------------------------------------------------------------------------
(* Code Generator: actions *)

NoGenObservation == [kind |-> "none"]

\* usedCodes after n earlier generateCode calls, oldest first: n distinct
\* codes that isCodeSecure accepts (the last digit is the first plus five,
\* so none is a repdigit or a run) and that differ from every code drawn
\* from RandomBytes
EarlierCodes(n) ==
    [i \in 1 .. n |->
        LET a == (i - 1) \div 100
            b == ((i - 1) \div 10) % 10
            c == (i - 1) % 10
        IN  <<a, b, c, (a + 5) % 10>>]

\* The generator after construction and generateCode calls that left `used`
\* in usedCodes, their history entries pruned since.  issuedCodes and
\* latestIssued record the calls that follow.
InitGenAfter(used) ==
    /\ usedCodes = used
    /\ codeHistory = EmptyMap
    /\ genCalls = 0
    /\ issuedCodes = {}
    /\ latestIssued = EmptyMap
    /\ genObs = NoGenObservation

InitGen == InitGenAfter(<<>>)

\* What a generateCode call is remembered as.  wasUsed: the code was in
\* usedCodes when the call was made; tracked: it is in usedCodes when the call
\* returns; blacklisted: excludePatterns.includes(code); repeated: an earlier
\* call returned the same code.
GenerateObservation(appointmentId, length, excl, code, path, usedAfter) ==
    [kind |-> "generate", appointmentId |-> appointmentId, length |-> length,
     code |-> code, path |-> path,
     wasUsed |-> SetHas(usedCodes, code),
     tracked |-> SetHas(usedAfter, code),
     blacklisted |-> Excluded(code, excl),
     repeated |-> code \in issuedCodes]

\* generateCode(appointmentId, options), the random path: the loop finds a
\* secure code, records it, cleans up and returns it.
GenerateCodeRandom(appointmentId, length, excl, maxAttempts, draws) ==
    LET loop == RandomLoop(0, maxAttempts, length, excl, usedCodes, draws)
        history == MapSet(codeHistory, appointmentId,
                          [code |-> loop.code, generatedAt |-> now])
        used == EvictOldCodes(SetAdd(usedCodes, loop.code))
    IN  /\ loop.found
        /\ codeHistory' = PruneHistory(history, now)
        /\ usedCodes' = used
        /\ issuedCodes' = issuedCodes \cup {loop.code}
        /\ latestIssued' = MapSet(latestIssued, appointmentId, loop.code)
        /\ genObs' = GenerateObservation(appointmentId, length, excl,
                                         loop.code, "random", used)

\* generateCode(appointmentId, options), the fallback: every attempt was
\* rejected and generateTimeBased(appointmentId) is returned as it is.
GenerateCodeFallback(appointmentId, length, excl, maxAttempts, draws, hash) ==
    LET loop == RandomLoop(0, maxAttempts, length, excl, usedCodes, draws)
        code == generateTimeBased(hash)
    IN  /\ ~loop.found
        /\ UNCHANGED <<codeHistory, usedCodes>>
        /\ issuedCodes' = issuedCodes \cup {code}
        /\ latestIssued' = MapSet(latestIssued, appointmentId, code)
        /\ genObs' = GenerateObservation(appointmentId, length, excl, code,
                                         "fallback", usedCodes)

\* doorCodeGenerator.generateCode(appointmentId, options)
GenerateCode ==
    /\ genCalls < MaxGenCalls
    /\ genCalls' = genCalls + 1
    /\ \E appointmentId \in AppointmentIds, length \in LengthOptions,
          excl \in ExcludeOptions, maxAttempts \in MaxAttemptsOptions :
          \E draws \in [DrawPeriod -> ByteTuples(length)] :
             \/ GenerateCodeRandom(appointmentId, length, excl, maxAttempts,
                                   draws)
             \/ \E hash \in HashValues :
                   GenerateCodeFallback(appointmentId, length, excl,
                                        maxAttempts, draws, hash)
    /\ UNCHANGED now

\* the codes a caller may present: every code returned so far and one that
\* was never issued
PresentableCodes == issuedCodes \cup {<<9, 9, 9, 9>>}

\* doorCodeGenerator.validateCode(code, appointmentId)
ValidateCode(code, appointmentId) ==
    /\ genObs' = [kind |-> "validate", code |-> code,
                  appointmentId |-> appointmentId,
                  result |-> validateCode(codeHistory, code, appointmentId)]
    /\ UNCHANGED <<now, usedCodes, codeHistory, genCalls, issuedCodes,
                   latestIssued>>

\* the candidate codes isCodeSecure is asked about: every string of up to
\* MaxCandidateLength digits drawn from CandidateDigits
CandidateCodes ==
    UNION { [1 .. len -> CandidateDigits] : len \in 1 .. MaxCandidateLength }

\* doorCodeGenerator.isCodeSecure(code, excludePatterns), called with the
\* candidate and the blacklist the behaviour began with
IsCodeSecureCalled ==
    /\ genObs.kind = "candidate"
    /\ genObs' = [kind |-> "secure", code |-> genObs.code,
                  used |-> SetHas(usedCodes, genObs.code),
                  blacklisted |-> Excluded(genObs.code, genObs.excl),
                  result |-> isCodeSecure(genObs.code, genObs.excl, usedCodes)]
    /\ UNCHANGED <<now, usedCodes, codeHistory, genCalls, issuedCodes,
                   latestIssued>>

\* The clock of the Code Generator advances.
TickGen ==
    /\ now + GenTickMinutes <= MaxGenNow
    /\ now' = now + GenTickMinutes
    /\ genObs' = NoGenObservation
    /\ UNCHANGED <<usedCodes, codeHistory, genCalls, issuedCodes, latestIssued>>

-----------------------------------------------------------------------------
(* Orchestrator: inputs *)

\* config.sessionDurations[serviceName] || config.sessionDurations.default
sessionDurations(serviceName) ==
    IF serviceName = "Ice bath" THEN SessionDurationIceBath
    ELSE SessionDurationDefault

\* getLockDurationForService(serviceName)
getLockDurationForService(serviceName) ==
    sessionDurations(serviceName) + BufferTimeMinutes

\* The appointments of the Booking Source, ORDER BY bookingStart ASC.  The
\* first has the shape scheduleAutoLock reads (bookingEnd, service.name); the
\* others have the shape AmeliaService.formatAppointment returns, which has
\* startTime and endTime and no bookingEnd field.
Appointments ==
    << [id |-> "101", startTime |-> 0, endTime |-> 15, service |-> "Ice bath",
        status |-> "approved", bookingEnd |-> 15],
       [id |-> "102", startTime |-> 1, endTime |-> 16, service |-> "Ice bath",
        status |-> "approved"],
       [id |-> "103", startTime |-> 1, endTime |-> 16, service |-> "Ice bath",
        status |-> "canceled"] >>

\* the appointments a POST /webhook/amelia/booking can deliver, as
\* formatAPIAppointment shapes them
WebhookAppointments ==
    { Appointments[i] : i \in 2 .. Len(Appointments) }

\* `${appointment.id}_${appointment.startTime.unix()}`
appointmentKey(appointment) == <<appointment.id, appointment.startTime>>

AppointmentKeys ==
    { appointmentKey(Appointments[i]) : i \in 1 .. Len(Appointments) }

\* The poll cycles that can be in progress at the same time: the cron job
\* calls processUpcomingAppointments() without awaiting the previous call.
CycleIds == {1, 2}

\* error: the error a cycle is carrying to its catch; notified: the
\* sendErrorNotification calls it has made; started: the appointments it
\* has begun to handle; added: the keys it has added
IdleCycle ==
    [pc |-> "idle", todo |-> <<>>, error |-> "none", notified |-> 0,
     started |-> 0, added |-> 0]

\* the handler of POST /webhook/amelia/booking when no request is in flight
IdleHook == [pc |-> "idle"]

\* the random source and the hash of the generateCode calls the engine makes
EngineDraws == { <<b>> : b \in { <<0, 11>> } }
EngineHashValues == {313324004}

\* How a sendErrorNotification call settles: EmailService catches a failed
\* send itself and resolves; MockEmailService returns the promise of
\* sendMail, which can reject.
NotificationResults == {"resolved", "rejected"}

-----------------------------------------------------------------------------
(* Orchestrator: functions *)

\* AmeliaService.getAppointmentsStartingSoon(minutesAhead) at instant t
InStartingSoonWindow(appointment, t) ==
    /\ appointment.startTime >= t - JustStartedMinutes
    /\ appointment.startTime <= t + StartingSoonMinutes
    /\ appointment.status \in {"approved", "pending"}

getAppointmentsStartingSoon(t) ==
    SelectSeq(Appointments, LAMBDA a : InStartingSoonWindow(a, t))

\* appointment.isStartingSoon(5) of formatAPIAppointment
isStartingSoon(appointment, t) ==
    /\ appointment.startTime - t >= 0 - JustStartedMinutes
    /\ appointment.startTime - t <= StartingSoonMinutes

\* the for loop of processUpcomingAppointments up to the next appointment
\* whose key is not in processedAppointments
RECURSIVE SkipProcessed(_, _)
SkipProcessed(todo, processed) ==
    IF todo = <<>> THEN <<>>
    ELSE IF appointmentKey(Head(todo)) \in processed
         THEN SkipProcessed(Tail(todo), processed)
         ELSE todo

\* cleanupProcessedAppointments() with the present instant as cutoffTime
cleanupProcessedAppointmentsStarted(processed, t) ==
    { k \in processed : ~(k[2] < t) }

\* cleanupProcessedAppointments()
cleanupProcessedAppointments(processed, t) ==
    LET cutoffTime == t - ProcessedRetentionMinutes
    IN  { k \in processed : ~(k[2] < cutoffTime) }

\* Date.now() at instant t, in minutes since the epoch
DateNow(t) == ProcessStartEpochMinutes + t

\* timer._idleStart: the time of the event loop, which counts from the start
\* of the process, at the instant the timer was armed.  The arming instant
\* of a timer is not kept: it lies between the construction of the engine
\* and t.
IdleStarts(t) == LoopUptimeAtConstruction .. (LoopUptimeAtConstruction + t)

\* performCleanupTasks: timer._idleStart && (now - timer._idleStart > 24 h),
\* which has the same value for every arming instant
IdleTooLong(t) ==
    \A idleStart \in IdleStarts(t) :
        /\ idleStart # 0
        /\ DateNow(t) - idleStart > TimerRetentionMinutes

\* scheduleAutoLock(appointment) at instant t: the new values of the timer
\* state, and how many timers the call armed
scheduleAutoLock(appointment, timers, pending, handle, t) ==
    IF "bookingEnd" \notin DOMAIN appointment
    THEN [activeLockTimers |-> timers, pendingTimers |-> pending,
          nextTimer |-> handle, armed |-> 0]
    ELSE LET lockTime == appointment.bookingEnd
                            + getLockDurationForService(appointment.service)
             timeUntilLock == lockTime - t
             lockDelay == Max(timeUntilLock, MinLockDelayMinutes)
             timer == [handle |-> handle, appointmentId |-> appointment.id,
                       key |-> appointmentKey(appointment),
                       due |-> t + lockDelay]
         IN  [activeLockTimers |-> MapSet(timers, appointment.id, timer),
              pendingTimers |-> pending \cup {timer},
              nextTimer |-> handle + 1, armed |-> 1]

\* The error that goes on after the sendErrorNotification of a catch block
\* has settled: a rejection is caught and logged, and the handler throws the
\* error it had caught.
ErrorAfterReportCascades(error, result) ==
    IF result = "rejected" THEN "errorNotification" ELSE error

ErrorAfterReport(error, result) == error

\* getStatus()
getStatus ==
    [isRunning |-> isRunning, isInitialized |-> isInitialized,
     activeTimers |-> Cardinality(DOMAIN activeLockTimers)]

-----------------------------------------------------------------------------
(* Orchestrator: actions.  A poll cycle is suspended at each await; the    *)
(* code between two awaits runs as one step.                               *)

NoEngineObservation == [kind |-> "none"]

\* The engine after construction, over a calendar service that has recorded
\* the keys `processed`.
InitEngineAfter(processed) ==
    /\ isRunning = FALSE
    /\ isInitialized = FALSE
    /\ cronJobs = "none"
    /\ stopping = FALSE
    /\ stops = 0
    /\ processedAppointments = {}
    /\ processedEvents = processed
    /\ activeLockTimers = EmptyMap
    /\ pendingTimers = {}
    /\ lockCalls = {}
    /\ nextTimer = 1
    /\ cycles = [c \in CycleIds |-> IdleCycle]
    /\ hook = IdleHook
    /\ webhooks = 0
    /\ polls = 0
    /\ overlapped = FALSE
    /\ handled = [k \in AppointmentKeys |->
                     [codes |-> 0, unlocks |-> 0, emails |-> 0, timers |-> 0]]
    /\ cancelledTimers = {}
    /\ stopSurvivors = {}
    /\ stopReturned = FALSE
    /\ lockedAfterStop = {}
    /\ failedLocks = {}
    /\ engineObs = NoEngineObservation

InitEngine == InitEngineAfter({})

\* initialize() resolves: the services are ready, setupScheduledTasks() has
\* created the three jobs unstarted, isInitialized is set.
InitializeSucceeds ==
    /\ cronJobs = "none"
    /\ cronJobs' = "stopped"
    /\ isInitialized' = TRUE
    /\ engineObs' = NoEngineObservation
    /\ UNCHANGED <<now, isRunning, stopping, stops, processedAppointments,
                   processedEvents, activeLockTimers, pendingTimers,
                   lockCalls, nextTimer, cycles, hook, webhooks, polls,
                   overlapped, handled, cancelledTimers, stopSurvivors,
                   stopReturned, lockedAfterStop, failedLocks, genVars>>

\* start()
Start ==
    /\ IF isRunning
       THEN UNCHANGED <<cronJobs, isRunning>>
       ELSE /\ cronJobs' = IF cronJobs = "none" THEN "none" ELSE "started"
            /\ isRunning' = TRUE
    /\ engineObs' = NoEngineObservation
    /\ UNCHANGED <<now, isInitialized, stopping, stops,
                   processedAppointments, processedEvents, activeLockTimers,
                   pendingTimers, lockCalls, nextTimer, cycles, hook,
                   webhooks, polls, overlapped, handled, cancelledTimers,
                   stopSurvivors, stopReturned, lockedAfterStop,
                   failedLocks, genVars>>

\* stop() up to its first await: the jobs are stopped, every timer held in
\* activeLockTimers is cleared and the map is emptied.
StopCalled ==
    LET held == { activeLockTimers[id] : id \in DOMAIN activeLockTimers }
        cleared == pendingTimers \cap held
    IN  /\ ~stopping
        /\ stops < MaxStops
        /\ stops' = stops + 1
        /\ stopping' = TRUE
        /\ cronJobs' = IF cronJobs = "none" THEN "none" ELSE "stopped"
        /\ pendingTimers' = pendingTimers \ cleared
        /\ activeLockTimers' = EmptyMap
        /\ cancelledTimers' = cancelledTimers \cup
              { [handle |-> timer.handle, appointmentId |-> timer.appointmentId,
                 by |-> "stop"] : timer \in cleared }
        /\ stopSurvivors' = stopSurvivors \cup
              { timer.handle : timer \in pendingTimers \ cleared }
        /\ engineObs' = NoEngineObservation
        /\ UNCHANGED <<now, isRunning, isInitialized, processedAppointments,
                       processedEvents, lockCalls, nextTimer, cycles, hook,
                       webhooks, polls, overlapped, handled, stopReturned,
                       lockedAfterStop, failedLocks, genVars>>

\* the awaits of stop() resolve: the flags are cleared and stop() returns
StopReturned ==
    /\ stopping
    /\ stopping' = FALSE
    /\ isRunning' = FALSE
    /\ isInitialized' = FALSE
    /\ stopReturned' = TRUE
    /\ engineObs' = NoEngineObservation
    /\ UNCHANGED <<now, cronJobs, stops, processedAppointments,
                   processedEvents, activeLockTimers, pendingTimers,
                   lockCalls, nextTimer, cycles, hook, webhooks, polls,
                   overlapped, handled, cancelledTimers, stopSurvivors,
                   lockedAfterStop, failedLocks, genVars>>

\* ameliaService.disconnect() or eufyService.cleanup() rejects: stop()
\* rejects before it clears the flags
StopFailed ==
    /\ stopping
    /\ stopping' = FALSE
    /\ engineObs' = NoEngineObservation
    /\ UNCHANGED <<now, isRunning, isInitialized, cronJobs, stops,
                   processedAppointments, processedEvents, activeLockTimers,
                   pendingTimers, lockCalls, nextTimer, cycles, hook,
                   webhooks, polls, overlapped, handled, cancelledTimers,
                   stopSurvivors, stopReturned, lockedAfterStop,
                   failedLocks, genVars>>

\* handleBookingAppointment(appointment) up to the await of the confirmation
\* email, which includes the generateCode call of sendBookingConfirmation
BeginHandling(appointment) ==
    /\ handled' = [handled EXCEPT ![appointmentKey(appointment)].codes = @ + 1]
    /\ genCalls' = genCalls + 1
    /\ \E draws \in EngineDraws :
          \/ GenerateCodeRandom(appointment.id, BookingCodeLength,
                                [kind |-> "default"], DefaultMaxAttempts, draws)
          \/ \E hash \in EngineHashValues :
                GenerateCodeFallback(appointment.id, BookingCodeLength,
                                     [kind |-> "default"], DefaultMaxAttempts,
                                     draws, hash)

\* The for loop of processUpcomingAppointments from the head of todo: keys
\* already processed are skipped; for the first other appointment
\* handleBookingAppointment runs up to its first await.  A loop that has run
\* out of appointments ends the cycle.
ContinueLoop(c, cycle, todo, processed) ==
    LET rest == SkipProcessed(todo, processed)
    IN  IF rest = <<>>
        THEN /\ cycles' = [cycles EXCEPT ![c] = IdleCycle]
             /\ handled' = handled
             /\ engineObs' = [kind |-> "cycleSettled", cycle |-> c,
                              error |-> cycle.error,
                              notified |-> cycle.notified,
                              started |-> cycle.started, added |-> cycle.added]
             /\ UNCHANGED genVars
        ELSE /\ cycles' = [cycles EXCEPT
                              ![c] = [cycle EXCEPT !.pc = "emailing",
                                                   !.todo = rest,
                                                   !.started = @ + 1]]
             /\ engineObs' = NoEngineObservation
             /\ BeginHandling(Head(rest))

\* scheduleAutoLock(appointment) as a step of a handler
ArmLock(appointment) ==
    LET s == scheduleAutoLock(appointment, activeLockTimers, pendingTimers,
                              nextTimer, now)
    IN  /\ activeLockTimers' = s.activeLockTimers
        /\ pendingTimers' = s.pendingTimers
        /\ nextTimer' = s.nextTimer
        /\ handled' = [handled EXCEPT
                         ![appointmentKey(appointment)].timers = @ + s.armed]

\* handleBookingAppointment after sendBookingConfirmation has returned:
\* scheduleAutoLock(appointment), then the await of the closing note.
ScheduleAndNote(c) ==
    /\ ArmLock(Head(cycles[c].todo))
    /\ cycles' = [cycles EXCEPT ![c].pc = "noting"]
    /\ engineObs' = NoEngineObservation

\* The cron job fires: processUpcomingAppointments() is called and suspends
\* in getAppointmentsStartingSoon(5).
PollTick(c) ==
    /\ cronJobs = "started"
    /\ polls < MaxPolls
    /\ cycles[c].pc = "idle"
    /\ \A d \in CycleIds : d < c => cycles[d].pc # "idle"
    /\ polls' = polls + 1
    /\ overlapped' = (overlapped \/ \E d \in CycleIds : cycles[d].pc # "idle")
    /\ cycles' = [cycles EXCEPT ![c].pc = "query"]
    /\ engineObs' = NoEngineObservation
    /\ UNCHANGED <<now, isRunning, isInitialized, cronJobs, stopping, stops,
                   processedAppointments, processedEvents, activeLockTimers,
                   pendingTimers, lockCalls, nextTimer, hook, webhooks,
                   handled, cancelledTimers, stopSurvivors, stopReturned,
                   lockedAfterStop, failedLocks, genVars>>

\* getAppointmentsStartingSoon resolves and the loop starts.
QueryReturns(c) ==
    /\ cycles[c].pc = "query"
    /\ ContinueLoop(c, cycles[c], getAppointmentsStartingSoon(now),
                    processedAppointments)
    /\ UNCHANGED <<now, isRunning, isInitialized, cronJobs, stopping, stops,
                   processedAppointments, processedEvents, activeLockTimers,
                   pendingTimers, lockCalls, nextTimer, hook, webhooks,
                   polls, overlapped, cancelledTimers, stopSurvivors,
                   stopReturned, lockedAfterStop, failedLocks>>

\* getAppointmentsStartingSoon throws: the catch of
\* processUpcomingAppointments awaits sendErrorNotification.
QueryFails(c) ==
    /\ cycles[c].pc = "query"
    /\ cycles' = [cycles EXCEPT ![c].pc = "reportingCycle",
                                ![c].error = "query",
                                ![c].notified = @ + 1]
    /\ engineObs' = NoEngineObservation
    /\ UNCHANGED <<now, isRunning, isInitialized, cronJobs, stopping, stops,
                   processedAppointments, processedEvents, activeLockTimers,
                   pendingTimers, lockCalls, nextTimer, hook, webhooks,
                   polls, overlapped, handled, cancelledTimers,
                   stopSurvivors, stopReturned, lockedAfterStop,
                   failedLocks, genVars>>

\* emailService.sendBookingConfirmation resolves: the code note is awaited.
EmailSent(c) ==
    /\ cycles[c].pc = "emailing"
    /\ handled' = [handled EXCEPT
                     ![appointmentKey(Head(cycles[c].todo))].emails = @ + 1]
    /\ cycles' = [cycles EXCEPT ![c].pc = "codeNote"]
    /\ engineObs' = NoEngineObservation
    /\ UNCHANGED <<now, isRunning, isInitialized, cronJobs, stopping, stops,
                   processedAppointments, processedEvents, activeLockTimers,
                   pendingTimers, lockCalls, nextTimer, hook, webhooks,
                   polls, overlapped, cancelledTimers, stopSurvivors,
                   stopReturned, lockedAfterStop, failedLocks, genVars>>

\* emailService.sendBookingConfirmation throws: sendBookingConfirmation
\* catches it and returns.
EmailFailed(c) ==
    /\ cycles[c].pc = "emailing"
    /\ ScheduleAndNote(c)
    /\ UNCHANGED <<now, isRunning, isInitialized, cronJobs, stopping, stops,
                   processedAppointments, processedEvents, lockCalls, hook,
                   webhooks, polls, overlapped, cancelledTimers,
                   stopSurvivors, stopReturned, lockedAfterStop,
                   failedLocks, genVars>>

\* the addAppointmentNote of sendBookingConfirmation settles; a failure is
\* caught there
CodeNoteSettled(c) ==
    /\ cycles[c].pc = "codeNote"
    /\ ScheduleAndNote(c)
    /\ UNCHANGED <<now, isRunning, isInitialized, cronJobs, stopping, stops,
                   processedAppointments, processedEvents, lockCalls, hook,
                   webhooks, polls, overlapped, cancelledTimers,
                   stopSurvivors, stopReturned, lockedAfterStop,
                   failedLocks, genVars>>

\* the addAppointmentNote of handleBookingAppointment resolves: the key is
\* added, old keys are cleaned up and the loop goes on.
NoteAdded(c) ==
    LET processed == cleanupProcessedAppointments(
                        processedAppointments
                           \cup {appointmentKey(Head(cycles[c].todo))}, now)
    IN  /\ cycles[c].pc = "noting"
        /\ processedAppointments' = processed
        /\ ContinueLoop(c, [cycles[c] EXCEPT !.added = @ + 1],
                        Tail(cycles[c].todo), processed)
        /\ UNCHANGED <<now, isRunning, isInitialized, cronJobs, stopping,
                       stops, processedEvents, activeLockTimers,
                       pendingTimers, lockCalls, nextTimer, hook, webhooks,
                       polls, overlapped, cancelledTimers, stopSurvivors,
                       stopReturned, lockedAfterStop, failedLocks>>

\* handleBookingAppointment with the key added in a finally block: it is
\* recorded also when the closing note throws.
NoteFailedMarksProcessed(c) ==
    /\ cycles[c].pc = "noting"
    /\ processedAppointments' =
          processedAppointments \cup {appointmentKey(Head(cycles[c].todo))}
    /\ cycles' = [cycles EXCEPT ![c].pc = "reportingHandler",
                                ![c].error = "note",
                                ![c].notified = @ + 1]
    /\ engineObs' = NoEngineObservation
    /\ UNCHANGED <<now, isRunning, isInitialized, cronJobs, stopping, stops,
                   processedEvents, activeLockTimers,
                   pendingTimers, lockCalls, nextTimer, hook, webhooks,
                   polls, overlapped, handled, cancelledTimers,
                   stopSurvivors, stopReturned, lockedAfterStop,
                   failedLocks, genVars>>

\* the addAppointmentNote of handleBookingAppointment throws: the catch of
\* handleBookingAppointment awaits sendErrorNotification.
NoteFailed(c) ==
    /\ cycles[c].pc = "noting"
    /\ cycles' = [cycles EXCEPT ![c].pc = "reportingHandler",
                                ![c].error = "note",
                                ![c].notified = @ + 1]
    /\ engineObs' = NoEngineObservation
    /\ UNCHANGED <<now, isRunning, isInitialized, cronJobs, stopping, stops,
                   processedAppointments, processedEvents, activeLockTimers,
                   pendingTimers, lockCalls, nextTimer, hook, webhooks,
                   polls, overlapped, handled, cancelledTimers,
                   stopSurvivors, stopReturned, lockedAfterStop,
                   failedLocks, genVars>>

\* sendErrorNotification settles in handleBookingAppointment, which rethrows:
\* the loop is left and the catch of processUpcomingAppointments awaits
\* sendErrorNotification.
HandlerErrorReported(c) ==
    /\ cycles[c].pc = "reportingHandler"
    /\ \E result \in NotificationResults :
          /\ cycles' = [cycles EXCEPT
                          ![c].pc = "reportingCycle",
                          ![c].error = ErrorAfterReport(@, result),
                          ![c].notified = @ + 1]
          /\ engineObs' = [kind |-> "errorNotification", cycle |-> c,
                           context |-> "handler", result |-> result]
    /\ UNCHANGED <<now, isRunning, isInitialized, cronJobs, stopping, stops,
                   processedAppointments, processedEvents, activeLockTimers,
                   pendingTimers, lockCalls, nextTimer, hook, webhooks,
                   polls, overlapped, handled, cancelledTimers,
                   stopSurvivors, stopReturned, lockedAfterStop,
                   failedLocks, genVars>>

\* sendErrorNotification settles in processUpcomingAppointments, which ends.
CycleErrorReported(c) ==
    /\ cycles[c].pc = "reportingCycle"
    /\ \E result \in NotificationResults :
          engineObs' = [kind |-> "cycleSettled", cycle |-> c,
                        error |-> ErrorAfterReport(cycles[c].error, result),
                        notified |-> cycles[c].notified,
                        started |-> cycles[c].started,
                        added |-> cycles[c].added]
    /\ cycles' = [cycles EXCEPT ![c] = IdleCycle]
    /\ UNCHANGED <<now, isRunning, isInitialized, cronJobs, stopping, stops,
                   processedAppointments, processedEvents, activeLockTimers,
                   pendingTimers, lockCalls, nextTimer, hook, webhooks,
                   polls, overlapped, handled, cancelledTimers,
                   stopSurvivors, stopReturned, lockedAfterStop,
                   failedLocks, genVars>>

\* A lock timer expires: its callback awaits eufyService.lockDoor().
TimerFires(timer) ==
    /\ timer \in pendingTimers
    /\ timer.due <= now
    /\ pendingTimers' = pendingTimers \ {timer}
    /\ lockCalls' = lockCalls \cup {timer}
    /\ lockedAfterStop' = lockedAfterStop \cup
          (IF stopReturned THEN {timer.handle} \cap stopSurvivors ELSE {})
    /\ engineObs' = NoEngineObservation
    /\ UNCHANGED <<now, isRunning, isInitialized, cronJobs, stopping, stops,
                   processedAppointments, processedEvents, activeLockTimers,
                   nextTimer, cycles, hook, webhooks, polls, overlapped,
                   handled, cancelledTimers, stopSurvivors, stopReturned,
                   failedLocks, genVars>>

\* lockDoor() resolves: this.activeLockTimers.delete(appointment.id); the
\* note awaited afterwards changes nothing here.
LockSucceeded(timer) ==
    /\ timer \in lockCalls
    /\ lockCalls' = lockCalls \ {timer}
    /\ activeLockTimers' = MapDelete(activeLockTimers, timer.appointmentId)
    /\ engineObs' = NoEngineObservation
    /\ UNCHANGED <<now, isRunning, isInitialized, cronJobs, stopping, stops,
                   processedAppointments, processedEvents, pendingTimers,
                   nextTimer, cycles, hook, webhooks, polls, overlapped,
                   handled, cancelledTimers, stopSurvivors, stopReturned,
                   lockedAfterStop, failedLocks, genVars>>

\* lockDoor() throws: the catch of the callback logs the error and the
\* callback ends, having made no sendErrorNotification call.
LockFailed(timer) ==
    /\ timer \in lockCalls
    /\ lockCalls' = lockCalls \ {timer}
    /\ failedLocks' = failedLocks \cup
          {[handle |-> timer.handle, appointmentId |-> timer.appointmentId,
            notifications |-> 0]}
    /\ engineObs' = NoEngineObservation
    /\ UNCHANGED <<now, isRunning, isInitialized, cronJobs, stopping, stops,
                   processedAppointments, processedEvents, activeLockTimers,
                   pendingTimers, nextTimer, cycles, hook, webhooks, polls,
                   overlapped, handled, cancelledTimers, stopSurvivors,
                   stopReturned, lockedAfterStop, genVars>>

\* performCleanupTasks(), the hourly job
CleanupTask ==
    LET expiredTimers == { id \in DOMAIN activeLockTimers : IdleTooLong(now) }
        cleared == pendingTimers \cap
                      { activeLockTimers[id] : id \in expiredTimers }
    IN  /\ cronJobs = "started"
        /\ processedAppointments' =
              cleanupProcessedAppointments(processedAppointments, now)
        /\ pendingTimers' = pendingTimers \ cleared
        /\ activeLockTimers' =
              [id \in (DOMAIN activeLockTimers) \ expiredTimers |->
                  activeLockTimers[id]]
        /\ cancelledTimers' = cancelledTimers \cup
              { [handle |-> timer.handle, appointmentId |-> timer.appointmentId,
                 by |-> "cleanup"] : timer \in cleared }
        /\ engineObs' = [kind |-> "cleanup",
                         toRemove |-> processedAppointments
                                         \ processedAppointments']
        /\ UNCHANGED <<now, isRunning, isInitialized, cronJobs, stopping,
                       stops, processedEvents, lockCalls, nextTimer, cycles,
                       hook, webhooks, polls, overlapped, handled,
                       stopSurvivors, stopReturned, lockedAfterStop,
                       failedLocks, genVars>>

\* POST /webhook/amelia/booking: processWebhookNotification formats the
\* appointment; one that is starting soon is handed to
\* handleBookingAppointment, any other is acknowledged.
WebhookReceived(appointment) ==
    /\ hook.pc = "idle"
    /\ webhooks < MaxWebhooks
    /\ webhooks' = webhooks + 1
    /\ engineObs' = NoEngineObservation
    /\ IF isStartingSoon(appointment, now)
       THEN /\ hook' = [pc |-> "emailing", appointment |-> appointment]
            /\ BeginHandling(appointment)
       ELSE /\ hook' = IdleHook
            /\ UNCHANGED <<handled, genVars>>
    /\ UNCHANGED <<now, isRunning, isInitialized, cronJobs, stopping, stops,
                   processedAppointments, processedEvents, activeLockTimers,
                   pendingTimers, lockCalls, nextTimer, cycles, polls,
                   overlapped, cancelledTimers, stopSurvivors, stopReturned,
                   lockedAfterStop, failedLocks>>

\* the confirmation email of a webhook appointment is sent
HookEmailSent ==
    /\ hook.pc = "emailing"
    /\ handled' = [handled EXCEPT
                     ![appointmentKey(hook.appointment)].emails = @ + 1]
    /\ hook' = [hook EXCEPT !.pc = "codeNote"]
    /\ engineObs' = NoEngineObservation
    /\ UNCHANGED <<now, isRunning, isInitialized, cronJobs, stopping, stops,
                   processedAppointments, processedEvents, activeLockTimers,
                   pendingTimers, lockCalls, nextTimer, cycles, webhooks,
                   polls, overlapped, cancelledTimers, stopSurvivors,
                   stopReturned, lockedAfterStop, failedLocks, genVars>>

\* the confirmation email of a webhook appointment fails, or its code note
\* settles: scheduleAutoLock, then the await of the closing note
HookScheduleAndNote ==
    /\ hook.pc \in {"emailing", "codeNote"}
    /\ ArmLock(hook.appointment)
    /\ hook' = [hook EXCEPT !.pc = "noting"]
    /\ engineObs' = NoEngineObservation
    /\ UNCHANGED <<now, isRunning, isInitialized, cronJobs, stopping, stops,
                   processedAppointments, processedEvents, lockCalls,
                   cycles, webhooks, polls, overlapped, cancelledTimers,
                   stopSurvivors, stopReturned, lockedAfterStop,
                   failedLocks, genVars>>

\* the closing note of a webhook appointment resolves (the handler answers
\* 200), or it throws and the sendErrorNotification of
\* handleBookingAppointment is awaited
HookNoteSettled ==
    /\ hook.pc = "noting"
    /\ \/ hook' = IdleHook
       \/ hook' = [hook EXCEPT !.pc = "reporting"]
    /\ engineObs' = NoEngineObservation
    /\ UNCHANGED <<now, isRunning, isInitialized, cronJobs, stopping, stops,
                   processedAppointments, processedEvents, activeLockTimers,
                   pendingTimers, lockCalls, nextTimer, cycles, webhooks,
                   polls, overlapped, handled, cancelledTimers,
                   stopSurvivors, stopReturned, lockedAfterStop,
                   failedLocks, genVars>>

\* sendErrorNotification settles, handleBookingAppointment rethrows and the
\* catch of the webhook handler answers 500
HookErrorReported ==
    /\ hook.pc = "reporting"
    /\ hook' = IdleHook
    /\ engineObs' = NoEngineObservation
    /\ UNCHANGED <<now, isRunning, isInitialized, cronJobs, stopping, stops,
                   processedAppointments, processedEvents, activeLockTimers,
                   pendingTimers, lockCalls, nextTimer, cycles, webhooks,
                   polls, overlapped, handled, cancelledTimers,
                   stopSurvivors, stopReturned, lockedAfterStop,
                   failedLocks, genVars>>

\* The clock of the Orchestrator advances: by a minute while appointments
\* are polled for, or to the instant the next lock timer is due.
TickEngine ==
    /\ \E t \in {now + 1} \cup { timer.due : timer \in pendingTimers } :
          /\ t > now
          /\ (\A timer \in pendingTimers : timer.due # t) => t <= MaxPollNow
          /\ \A timer \in pendingTimers : timer.due > now => t <= timer.due
          /\ now' = t
    /\ engineObs' = NoEngineObservation
    /\ UNCHANGED <<isRunning, isInitialized, cronJobs, stopping, stops,
                   processedAppointments, processedEvents, activeLockTimers,
                   pendingTimers, lockCalls, nextTimer, cycles, hook,
                   webhooks, polls, overlapped, handled, cancelledTimers,
                   stopSurvivors, stopReturned, lockedAfterStop,
                   failedLocks, genVars>>

\* A quiet day: no cycle is running, no timer is pending, and the clock moves
\* on by 24 hours.
DayPasses ==
    /\ \A c \in CycleIds : cycles[c].pc = "idle"
    /\ hook.pc = "idle"
    /\ pendingTimers = {}
    /\ lockCalls = {}
    /\ now + GenTickMinutes <= MaxGenNow
    /\ now' = now + GenTickMinutes
    /\ engineObs' = NoEngineObservation
    /\ UNCHANGED <<isRunning, isInitialized, cronJobs, stopping, stops,
                   processedAppointments, processedEvents, activeLockTimers,
                   pendingTimers, lockCalls, nextTimer, cycles, hook,
                   webhooks, polls, overlapped, handled, cancelledTimers,
                   stopSurvivors, stopReturned, lockedAfterStop,
                   failedLocks, genVars>>

-----------------------------------------------------------------------------
(* Door code endpoint: POST /access/code of the WebServer                   *)
(* (src/unnamed/part_013), which asks the Booking Source for the            *)
(* appointments in progress and the Code Generator for their codes          *)

\* AmeliaService.getCurrentlyActiveAppointments() at instant t
getCurrentlyActiveAppointments(t) ==
    SelectSeq(Appointments,
              LAMBDA a : /\ a.startTime <= t
                         /\ a.endTime >= t
                         /\ a.status \in {"approved", "pending"})

\* the for loop of the handler: the active appointments whose code the
\* submitted code is; the handler takes the first
ValidAppointments(active, history, code) ==
    SelectSeq(active, LAMBDA a : validateCode(history, code, a.id))

\* the random source of the generateCode calls that issue door codes
EntryDraws == { <<b>> : b \in { <<0, 11>>, <<11, 0>> } }

NoEntryObservation == [kind |-> "none"]
IdleCodeRequest == [pc |-> "idle"]

InitEntry ==
    /\ codeRequest = IdleCodeRequest
    /\ codeEntries = 0
    /\ grantedCodes = {}
    /\ entryObs = NoEntryObservation

\* The generateCode call of sendBookingConfirmation(appointment):
\* doorCodeGenerator.generateCode(appointment.id.toString(), {length: 4})
DoorCodeIssued(appointment) ==
    /\ genCalls < MaxGenCalls
    /\ genCalls' = genCalls + 1
    /\ \E draws \in EntryDraws :
          \/ GenerateCodeRandom(appointment.id, BookingCodeLength,
                                [kind |-> "default"], DefaultMaxAttempts, draws)
          \/ \E hash \in EngineHashValues :
                GenerateCodeFallback(appointment.id, BookingCodeLength,
                                     [kind |-> "default"], DefaultMaxAttempts,
                                     draws, hash)
    /\ entryObs' = NoEntryObservation
    /\ UNCHANGED <<now, codeRequest, codeEntries, grantedCodes>>

\* POST /access/code {code}: a code that is not four characters long is
\* answered 400; for any other the handler awaits
\* getCurrentlyActiveAppointments().
CodeSubmitted(code) ==
    /\ codeRequest.pc = "idle"
    /\ codeEntries < MaxCodeEntries
    /\ codeEntries' = codeEntries + 1
    /\ IF Len(code) # BookingCodeLength
       THEN /\ codeRequest' = IdleCodeRequest
            /\ entryObs' = [kind |-> "codeEntry", code |-> code,
                            status |-> 400, unlock |-> FALSE,
                            repeat |-> code \in grantedCodes]
       ELSE /\ codeRequest' = [pc |-> "querying", code |-> code]
            /\ entryObs' = NoEntryObservation
    /\ UNCHANGED <<now, grantedCodes, genVars>>

\* The rest of the handler with activeAppointments given: without a valid
\* appointment it answers 403; with one it calls eufyService.unlockDoor()
\* and answers 200, or 500 when the call throws.
CodeChecked(active) ==
    LET code == codeRequest.code
        valid == ValidAppointments(active, codeHistory, code)
    IN  /\ codeRequest.pc = "querying"
        /\ codeRequest' = IdleCodeRequest
        /\ IF valid = <<>>
           THEN /\ entryObs' = [kind |-> "codeEntry", code |-> code,
                                status |-> 403, unlock |-> FALSE,
                                repeat |-> code \in grantedCodes]
                /\ UNCHANGED grantedCodes
           ELSE /\ \E status \in {200, 500} :
                      entryObs' = [kind |-> "codeEntry", code |-> code,
                                   status |-> status, unlock |-> TRUE,
                                   repeat |-> code \in grantedCodes]
                /\ grantedCodes' = grantedCodes \cup {code}
        /\ UNCHANGED <<now, codeEntries, genVars>>

\* getCurrentlyActiveAppointments() resolves
ActiveQueryReturns == CodeChecked(getCurrentlyActiveAppointments(now))

\* getCurrentlyActiveAppointments() throws: the handler logs the error and
\* goes on with no active appointment
ActiveQueryFails == CodeChecked(<<>>)

\* The clock of the door code endpoint advances.
TickEntry ==
    /\ now + EntryTickMinutes <= MaxEntryNow
    /\ now' = now + EntryTickMinutes
    /\ genObs' = NoGenObservation
    /\ entryObs' = NoEntryObservation
    /\ UNCHANGED <<usedCodes, codeHistory, genCalls, issuedCodes, latestIssued,
                   codeRequest, codeEntries, grantedCodes>>

-----------------------------------------------------------------------------
(* Orchestrator, calendar revision (src/src/services/automationEngine.js    *)
(* with GoogleCalendarService, src/unnamed/part_012): inputs and functions  *)

\* The events of the calendar, orderBy startTime, as parseEvent shapes them;
\* title and description are kept as what isValidBookingEvent reads of them.
CalendarEvents ==
    << [id |-> "101", startTime |-> 0, hasAttendeeEmail |-> TRUE,
        isAllDay |-> FALSE, titleHasBooking |-> TRUE,
        titleHasAppointment |-> FALSE, descriptionHasAccess |-> FALSE],
       [id |-> "102", startTime |-> 1, hasAttendeeEmail |-> TRUE,
        isAllDay |-> FALSE, titleHasBooking |-> FALSE,
        titleHasAppointment |-> FALSE, descriptionHasAccess |-> FALSE],
       [id |-> "103", startTime |-> 1, hasAttendeeEmail |-> FALSE,
        isAllDay |-> FALSE, titleHasBooking |-> FALSE,
        titleHasAppointment |-> TRUE, descriptionHasAccess |-> FALSE] >>

\* `${event.id}-${moment(event.startTime).format('YYYY-MM-DD-HH-mm')}`
eventKey(event) == <<event.id, event.startTime>>

\* the keys of n events that were returned by earlier polls, each of them
\* started before the behaviour begins
EarlierEventKeys(n) == { <<ToString(i), 0 - i>> : i \in 1 .. n }

\* isValidBookingEvent(event): && binds tighter than ||
isValidBookingEvent(event) ==
    \/ /\ event.hasAttendeeEmail
       /\ ~event.isAllDay
       /\ event.titleHasBooking
    \/ event.titleHasAppointment
    \/ event.descriptionHasAccess

\* MockGoogleCalendarService.isValidBookingEvent(event): the keyword tests
\* are parenthesised, so the attendee and all-day tests apply to all three
MockIsValidBookingEvent(event) ==
    /\ event.hasAttendeeEmail
    /\ ~event.isAllDay
    /\ \/ event.titleHasBooking
       \/ event.titleHasAppointment
       \/ event.descriptionHasAccess

\* the first filter of getEventsStartingSoon(2) at instant t
soonEvents(t) ==
    SelectSeq(CalendarEvents,
              LAMBDA ev : /\ ev.startTime - t >= 0
                          /\ ev.startTime - t <= EventWindowMinutes)

\* the second filter of getEventsStartingSoon: the events whose key is not
\* in processedEvents; the keys of all of them are added
newEvents(t, processed) ==
    SelectSeq(soonEvents(t), LAMBDA ev : eventKey(ev) \notin processed)

\* the for loop of processUpcomingEvents up to the next event that
\* isValidBookingEvent accepts
RECURSIVE SkipInvalid(_)
SkipInvalid(todo) ==
    IF todo = <<>> THEN <<>>
    ELSE IF isValidBookingEvent(Head(todo)) THEN todo
         ELSE SkipInvalid(Tail(todo))

\* scheduleAutoLock(event) of the calendar revision at instant t: the timer
\* the map holds for the event is cleared before the new one is armed
scheduleEventAutoLock(event, timers, pending, handle, t) ==
    IF LockDurationMinutes <= 0
    THEN [activeLockTimers |-> timers, pendingTimers |-> pending,
          nextTimer |-> handle, armed |-> 0]
    ELSE LET cleared == IF MapHas(timers, event.id)
                        THEN {timers[event.id]} ELSE {}
             timer == [handle |-> handle, appointmentId |-> event.id,
                       key |-> eventKey(event),
                       due |-> t + LockDurationMinutes]
         IN  [activeLockTimers |-> MapSet(timers, event.id, timer),
              pendingTimers |-> (pending \ cleared) \cup {timer},
              nextTimer |-> handle + 1, armed |-> 1]

-----------------------------------------------------------------------------
(* Orchestrator, calendar revision: actions *)

\* the variables of the Amelia revision that the calendar revision has no
\* counterpart of
ameliaVars == <<isInitialized, stopping, hook, processedAppointments,
                webhooks, stopSurvivors, stopReturned, lockedAfterStop,
                genVars>>

\* initialize() resolves: the services are ready, setupScheduledTasks() has
\* created the three jobs unstarted, and isRunning is set.
CalendarInitialize ==
    /\ cronJobs = "none"
    /\ cronJobs' = "stopped"
    /\ isRunning' = TRUE
    /\ engineObs' = NoEngineObservation
    /\ UNCHANGED <<now, ameliaVars, stops, processedEvents, activeLockTimers,
                   pendingTimers, lockCalls, nextTimer, cycles, polls,
                   overlapped, handled, cancelledTimers, failedLocks>>

\* start(): the three jobs are started together by cronJobs.forEach
CalendarStart ==
    /\ IF isRunning
       THEN UNCHANGED <<cronJobs, isRunning>>
       ELSE /\ cronJobs' = IF cronJobs = "none" THEN "none" ELSE "started"
            /\ isRunning' = TRUE
    /\ engineObs' = [kind |-> "start", jobsBefore |-> cronJobs,
                     jobs |-> cronJobs', isRunning |-> isRunning']
    /\ UNCHANGED <<now, ameliaVars, stops, processedEvents, activeLockTimers,
                   pendingTimers, lockCalls, nextTimer, cycles, polls,
                   overlapped, handled, cancelledTimers, failedLocks>>

\* stop()
CalendarStop ==
    LET held == { activeLockTimers[id] : id \in DOMAIN activeLockTimers }
        cleared == pendingTimers \cap held
    IN  /\ stops < MaxStops
        /\ stops' = stops + 1
        /\ IF ~isRunning
           THEN UNCHANGED <<cronJobs, pendingTimers, activeLockTimers,
                            cancelledTimers, isRunning>>
           ELSE /\ cronJobs' = IF cronJobs = "none" THEN "none" ELSE "stopped"
                /\ pendingTimers' = pendingTimers \ cleared
                /\ activeLockTimers' = EmptyMap
                /\ cancelledTimers' = cancelledTimers \cup
                      { [handle |-> timer.handle,
                         appointmentId |-> timer.appointmentId,
                         by |-> "stop"] : timer \in cleared }
                /\ isRunning' = FALSE
        /\ engineObs' = NoEngineObservation
        /\ UNCHANGED <<now, ameliaVars, processedEvents, lockCalls, nextTimer,
                       cycles, polls, overlapped, handled, failedLocks>>

\* The for loop of processUpcomingEvents from the head of todo: events that
\* isValidBookingEvent rejects are skipped; for the first other event
\* handleBookingEvent runs up to the await of eufyService.unlockDoor().  A
\* loop that has run out of events ends the cycle.
ContinueEvents(c, cycle, todo) ==
    LET rest == SkipInvalid(todo)
    IN  IF rest = <<>>
        THEN /\ cycles' = [cycles EXCEPT ![c] = IdleCycle]
             /\ engineObs' = [kind |-> "cycleSettled", cycle |-> c,
                              error |-> cycle.error,
                              notified |-> cycle.notified,
                              started |-> cycle.started, added |-> cycle.added]
        ELSE /\ cycles' = [cycles EXCEPT
                              ![c] = [cycle EXCEPT !.pc = "unlocking",
                                                   !.todo = rest,
                                                   !.started = @ + 1]]
             /\ engineObs' = NoEngineObservation

\* The calendar job fires: processUpcomingEvents() is called and suspends in
\* getEventsStartingSoon(2).
EventsPollTick(c) ==
    /\ cronJobs = "started"
    /\ polls < MaxPolls
    /\ cycles[c].pc = "idle"
    /\ \A d \in CycleIds : d < c => cycles[d].pc # "idle"
    /\ polls' = polls + 1
    /\ overlapped' = (overlapped \/ \E d \in CycleIds : cycles[d].pc # "idle")
    /\ cycles' = [cycles EXCEPT ![c].pc = "query"]
    /\ engineObs' = NoEngineObservation
    /\ UNCHANGED <<now, ameliaVars, isRunning, cronJobs, stops,
                   processedEvents, activeLockTimers, pendingTimers,
                   lockCalls, nextTimer, handled, cancelledTimers,
                   failedLocks>>

\* getEventsStartingSoon resolves: the keys of the events starting soon are
\* in processedEvents and the loop starts with the new ones.
EventsQueryReturns(c) ==
    LET found == newEvents(now, processedEvents)
        soon == soonEvents(now)
    IN  /\ cycles[c].pc = "query"
        /\ processedEvents' = processedEvents \cup
              { eventKey(soon[i]) : i \in 1 .. Len(soon) }
        /\ ContinueEvents(c, [cycles[c] EXCEPT !.added = Len(found)], found)
        /\ UNCHANGED <<now, ameliaVars, isRunning, cronJobs, stops,
                       activeLockTimers, pendingTimers, lockCalls, nextTimer,
                       polls, overlapped, handled, cancelledTimers,
                       failedLocks>>

\* cleanupProcessedEvents(): the whole set is cleared once it holds more than
\* ProcessedEventsLimit keys; cutoffTime is computed and not used
cleanupProcessedEvents(processed) ==
    IF Cardinality(processed) > ProcessedEventsLimit THEN {} ELSE processed

\* performCleanupTasks(), the hourly job: the loop over activeLockTimers has
\* an empty body.
CalendarCleanupTask ==
    /\ cronJobs = "started"
    /\ processedEvents' = cleanupProcessedEvents(processedEvents)
    /\ engineObs' = NoEngineObservation
    /\ UNCHANGED <<now, ameliaVars, isRunning, cronJobs, stops,
                   activeLockTimers, pendingTimers, lockCalls, nextTimer,
                   cycles, polls, overlapped, handled, cancelledTimers,
                   failedLocks>>

\* calendar.events.list rejects: getUpcomingEvents rethrows, the catch of
\* getEventsStartingSoon logs the error and returns [], and
\* processUpcomingEvents runs its loop over no event.
EventsQueryFails(c) ==
    /\ cycles[c].pc = "query"
    /\ ContinueEvents(c, [cycles[c] EXCEPT !.error = "query"], <<>>)
    /\ UNCHANGED <<now, ameliaVars, isRunning, cronJobs, stops,
                   processedEvents, activeLockTimers, pendingTimers,
                   lockCalls, nextTimer, polls, overlapped, handled,
                   cancelledTimers, failedLocks>>

\* eufyService.unlockDoor() resolves: sendAccessConfirmation is awaited
DoorUnlocked(c) ==
    /\ cycles[c].pc = "unlocking"
    /\ handled' = [handled EXCEPT
                     ![eventKey(Head(cycles[c].todo))].unlocks = @ + 1]
    /\ cycles' = [cycles EXCEPT ![c].pc = "emailing"]
    /\ engineObs' = NoEngineObservation
    /\ UNCHANGED <<now, ameliaVars, isRunning, cronJobs, stops,
                   processedEvents, activeLockTimers, pendingTimers,
                   lockCalls, nextTimer, polls, overlapped, cancelledTimers,
                   failedLocks>>

\* eufyService.unlockDoor() throws: unlockDoor rethrows and the catch of
\* handleBookingEvent awaits sendErrorNotification
UnlockFailed(c) ==
    /\ cycles[c].pc = "unlocking"
    /\ cycles' = [cycles EXCEPT ![c].pc = "reportingHandler",
                                ![c].error = "unlock",
                                ![c].notified = @ + 1]
    /\ engineObs' = NoEngineObservation
    /\ UNCHANGED <<now, ameliaVars, isRunning, cronJobs, stops,
                   processedEvents, activeLockTimers, pendingTimers,
                   lockCalls, nextTimer, polls, overlapped, handled,
                   cancelledTimers, failedLocks>>

\* sendAccessConfirmation without its try/catch: a rejected email leaves
\* handleBookingEvent before scheduleAutoLock, through the catch that awaits
\* sendErrorNotification.
ConfirmationSettledOrThrows(c) ==
    LET event == Head(cycles[c].todo)
        s == scheduleEventAutoLock(event, activeLockTimers, pendingTimers,
                                   nextTimer, now)
        cleared == pendingTimers \ s.pendingTimers
    IN  /\ cycles[c].pc = "emailing"
        /\ \/ /\ handled' = [handled EXCEPT
                                ![eventKey(event)].emails = @ + 1,
                                ![eventKey(event)].timers = @ + s.armed]
              /\ activeLockTimers' = s.activeLockTimers
              /\ pendingTimers' = s.pendingTimers
              /\ nextTimer' = s.nextTimer
              /\ cancelledTimers' = cancelledTimers \cup
                    { [handle |-> timer.handle,
                       appointmentId |-> timer.appointmentId,
                       by |-> "reschedule"] : timer \in cleared }
              /\ ContinueEvents(c, cycles[c], Tail(cycles[c].todo))
           \/ /\ cycles' = [cycles EXCEPT ![c].pc = "reportingHandler",
                                          ![c].error = "email",
                                          ![c].notified = @ + 1]
              /\ engineObs' = NoEngineObservation
              /\ UNCHANGED <<handled, activeLockTimers, pendingTimers,
                             nextTimer, cancelledTimers>>
        /\ UNCHANGED <<now, ameliaVars, isRunning, cronJobs, stops,
                       processedEvents, lockCalls, polls, overlapped,
                       failedLocks>>

\* emailService.sendAccessConfirmation settles (a failure is caught by
\* sendAccessConfirmation); scheduleAutoLock(event) runs, handleBookingEvent
\* returns and the loop goes on.
ConfirmationSettled(c) ==
    LET event == Head(cycles[c].todo)
        s == scheduleEventAutoLock(event, activeLockTimers, pendingTimers,
                                   nextTimer, now)
        cleared == pendingTimers \ s.pendingTimers
    IN  /\ cycles[c].pc = "emailing"
        /\ \E sent \in {0, 1} :
              handled' = [handled EXCEPT
                            ![eventKey(event)].emails = @ + sent,
                            ![eventKey(event)].timers = @ + s.armed]
        /\ activeLockTimers' = s.activeLockTimers
        /\ pendingTimers' = s.pendingTimers
        /\ nextTimer' = s.nextTimer
        /\ cancelledTimers' = cancelledTimers \cup
              { [handle |-> timer.handle,
                 appointmentId |-> timer.appointmentId,
                 by |-> "reschedule"] : timer \in cleared }
        /\ ContinueEvents(c, cycles[c], Tail(cycles[c].todo))
        /\ UNCHANGED <<now, ameliaVars, isRunning, cronJobs, stops,
                       processedEvents, lockCalls, polls, overlapped,
                       failedLocks>>

\* sendErrorNotification settles in handleBookingEvent, which returns: the
\* loop goes on with the next event.
EventErrorReported(c) ==
    /\ cycles[c].pc = "reportingHandler"
    /\ ContinueEvents(c, cycles[c], Tail(cycles[c].todo))
    /\ UNCHANGED <<now, ameliaVars, isRunning, cronJobs, stops,
                   processedEvents, activeLockTimers, pendingTimers,
                   lockCalls, nextTimer, polls, overlapped, handled,
                   cancelledTimers, failedLocks>>

\* A lock timer expires: its callback awaits eufyService.lockDoor().
EventTimerFires(timer) ==
    /\ timer \in pendingTimers
    /\ timer.due <= now
    /\ pendingTimers' = pendingTimers \ {timer}
    /\ lockCalls' = lockCalls \cup {timer}
    /\ engineObs' = NoEngineObservation
    /\ UNCHANGED <<now, ameliaVars, isRunning, cronJobs, stops,
                   processedEvents, activeLockTimers, nextTimer, cycles,
                   polls, overlapped, handled, cancelledTimers, failedLocks>>

\* lockDoor() resolves: this.activeLockTimers.delete(event.id)
EventLockSucceeded(timer) ==
    /\ timer \in lockCalls
    /\ lockCalls' = lockCalls \ {timer}
    /\ activeLockTimers' = MapDelete(activeLockTimers, timer.appointmentId)
    /\ engineObs' = NoEngineObservation
    /\ UNCHANGED <<now, ameliaVars, isRunning, cronJobs, stops,
                   processedEvents, pendingTimers, nextTimer, cycles, polls,
                   overlapped, handled, cancelledTimers, failedLocks>>

\* lockDoor() throws: the catch of the callback awaits
\* sendErrorNotification, whose failure it catches, and the callback ends.
EventLockFailed(timer) ==
    /\ timer \in lockCalls
    /\ lockCalls' = lockCalls \ {timer}
    /\ failedLocks' = failedLocks \cup
          {[handle |-> timer.handle, appointmentId |-> timer.appointmentId,
            notifications |-> 1]}
    /\ engineObs' = NoEngineObservation
    /\ UNCHANGED <<now, ameliaVars, isRunning, cronJobs, stops,
                   processedEvents, activeLockTimers, pendingTimers,
                   nextTimer, cycles, polls, overlapped, handled,
                   cancelledTimers>>

-----------------------------------------------------------------------------
(* Specifications *)

vars == <<now, tokenVars, genVars, engineVars, entryVars>>

\* The state after construction of the singletons; a behaviour of the Access
\* Validator exercises either its token store or its code store.
InitValidator ==
    /\ InitTokens
    /\ InitGen
    /\ InitEngine
    /\ InitEntry
    /\ focus \in {"tokens", "codes"}

Init ==
    /\ InitTokens
    /\ InitGen
    /\ InitEngine
    /\ InitEntry
    /\ focus = "tokens"

\* The calendar service has either recorded nothing yet or the keys of
\* MaxEarlierEvents earlier events.
InitCalendarCleanup ==
    /\ InitTokens
    /\ InitGen
    /\ \E n \in {0, MaxEarlierEvents} : InitEngineAfter(EarlierEventKeys(n))
    /\ InitEntry
    /\ focus = "tokens"

\* usedCodes holds little yet, or is close to full, or full.
InitEvict ==
    /\ InitTokens
    /\ \E n \in {0, 1} \cup ((UsedCodesCap - MaxShortfall) .. UsedCodesCap) :
          InitGenAfter(EarlierCodes(n))
    /\ InitEngine
    /\ InitEntry
    /\ focus = "tokens"

\* A candidate code and a blacklist are drawn; usedCodes holds the codes of
\* up to MaxShortfall earlier calls.
InitSecure ==
    /\ InitTokens
    /\ \E n \in 0 .. MaxShortfall : usedCodes = EarlierCodes(n)
    /\ codeHistory = EmptyMap
    /\ genCalls = 0
    /\ issuedCodes = {}
    /\ latestIssued = EmptyMap
    /\ \E code \in CandidateCodes, excl \in ExcludeOptions :
          genObs = [kind |-> "candidate", code |-> code, excl |-> excl]
    /\ InitEngine
    /\ InitEntry
    /\ focus = "tokens"

NextTokens ==
    \/ TickTokens /\ UNCHANGED <<genVars, engineVars, entryVars>>
    \/ \E e \in Events :
          GenerateAccessToken(e) /\ UNCHANGED <<genVars, engineVars, entryVars>>
    \/ \E e \in Events, c \in AccessCodes :
          GenerateAccessCode(e, c) /\ UNCHANGED <<genVars, engineVars, entryVars>>
    \/ \E t \in sweepTimers : SweepToken(t) /\ UNCHANGED <<genVars, engineVars, entryVars>>
    \/ \E t \in sweepTimers : SweepCode(t) /\ UNCHANGED <<genVars, engineVars, entryVars>>
    \/ \E r \in Requests, t \in Tokens :
          UnlockRequest(r, t) /\ UNCHANGED <<genVars, engineVars, entryVars>>
    \/ \E r \in Requests :
          UnlockRequestWithoutToken(r)
             /\ UNCHANGED <<genVars, engineVars, entryVars>>
    \/ \E r \in Requests : UnlockSettled(r) /\ UNCHANGED <<genVars, engineVars, entryVars>>
    \/ \E c \in AccessCodes : PresentCode(c) /\ UNCHANGED <<genVars, engineVars, entryVars>>

NextGen ==
    \/ GenerateCode /\ UNCHANGED <<tokenVars, engineVars, entryVars>>
    \/ \E c \in PresentableCodes, a \in AppointmentIds :
          ValidateCode(c, a) /\ UNCHANGED <<tokenVars, engineVars, entryVars>>
    \/ TickGen /\ UNCHANGED <<tokenVars, engineVars, entryVars>>

\* The acceptance test of the Code Generator.
NextSecure ==
    IsCodeSecureCalled /\ UNCHANGED <<tokenVars, engineVars, entryVars>>

\* The Code Generator over a usedCodes set that earlier calls have filled.
NextEvict ==
    \/ \E i \in 1 .. Len(Appointments) :
          DoorCodeIssued(Appointments[i]) /\ UNCHANGED <<tokenVars, engineVars>>
    \/ TickGen /\ UNCHANGED <<tokenVars, engineVars, entryVars>>

NextEngine ==
    \/ InitializeSucceeds /\ UNCHANGED <<tokenVars, entryVars>>
    \/ Start /\ UNCHANGED <<tokenVars, entryVars>>
    \/ \E c \in CycleIds : PollTick(c) /\ UNCHANGED <<tokenVars, entryVars>>
    \/ \E c \in CycleIds : QueryReturns(c) /\ UNCHANGED <<tokenVars, entryVars>>
    \/ \E c \in CycleIds : QueryFails(c) /\ UNCHANGED <<tokenVars, entryVars>>
    \/ \E c \in CycleIds : EmailSent(c) /\ UNCHANGED <<tokenVars, entryVars>>
    \/ \E c \in CycleIds : EmailFailed(c) /\ UNCHANGED <<tokenVars, entryVars>>
    \/ \E c \in CycleIds : CodeNoteSettled(c) /\ UNCHANGED <<tokenVars, entryVars>>
    \/ \E c \in CycleIds : NoteAdded(c) /\ UNCHANGED <<tokenVars, entryVars>>
    \/ \E c \in CycleIds : NoteFailed(c) /\ UNCHANGED <<tokenVars, entryVars>>
    \/ \E c \in CycleIds : HandlerErrorReported(c) /\ UNCHANGED <<tokenVars, entryVars>>
    \/ \E c \in CycleIds : CycleErrorReported(c) /\ UNCHANGED <<tokenVars, entryVars>>
    \/ \E timer \in pendingTimers : TimerFires(timer) /\ UNCHANGED <<tokenVars, entryVars>>
    \/ \E timer \in lockCalls : LockSucceeded(timer) /\ UNCHANGED <<tokenVars, entryVars>>
    \/ \E timer \in lockCalls : LockFailed(timer) /\ UNCHANGED <<tokenVars, entryVars>>
    \/ TickEngine /\ UNCHANGED <<tokenVars, entryVars>>

\* The engine with stop() and the hourly performCleanupTasks() job, in
\* behaviours whose poll cycles do not overlap.
NextLifecycle ==
    \/ InitializeSucceeds /\ UNCHANGED <<tokenVars, entryVars>>
    \/ Start /\ UNCHANGED <<tokenVars, entryVars>>
    \/ StopCalled /\ UNCHANGED <<tokenVars, entryVars>>
    \/ StopReturned /\ UNCHANGED <<tokenVars, entryVars>>
    \/ StopFailed /\ UNCHANGED <<tokenVars, entryVars>>
    \/ CleanupTask /\ UNCHANGED <<tokenVars, entryVars>>
    \/ \E c \in CycleIds :
          (\A d \in CycleIds : cycles[d].pc = "idle")
             /\ PollTick(c) /\ UNCHANGED <<tokenVars, entryVars>>
    \/ \E c \in CycleIds : QueryReturns(c) /\ UNCHANGED <<tokenVars, entryVars>>
    \/ \E c \in CycleIds : QueryFails(c) /\ UNCHANGED <<tokenVars, entryVars>>
    \/ \E c \in CycleIds : EmailSent(c) /\ UNCHANGED <<tokenVars, entryVars>>
    \/ \E c \in CycleIds : EmailFailed(c) /\ UNCHANGED <<tokenVars, entryVars>>
    \/ \E c \in CycleIds : CodeNoteSettled(c) /\ UNCHANGED <<tokenVars, entryVars>>
    \/ \E c \in CycleIds : NoteAdded(c) /\ UNCHANGED <<tokenVars, entryVars>>
    \/ \E c \in CycleIds : NoteFailed(c) /\ UNCHANGED <<tokenVars, entryVars>>
    \/ \E c \in CycleIds : HandlerErrorReported(c) /\ UNCHANGED <<tokenVars, entryVars>>
    \/ \E c \in CycleIds : CycleErrorReported(c) /\ UNCHANGED <<tokenVars, entryVars>>
    \/ \E timer \in pendingTimers : TimerFires(timer) /\ UNCHANGED <<tokenVars, entryVars>>
    \/ \E timer \in lockCalls : LockSucceeded(timer) /\ UNCHANGED <<tokenVars, entryVars>>
    \/ \E timer \in lockCalls : LockFailed(timer) /\ UNCHANGED <<tokenVars, entryVars>>
    \/ TickEngine /\ UNCHANGED <<tokenVars, entryVars>>

\* The engine with performCleanupTasks() over several days, in behaviours
\* whose poll cycles do not overlap.
NextRetention ==
    \/ InitializeSucceeds /\ UNCHANGED <<tokenVars, entryVars>>
    \/ Start /\ UNCHANGED <<tokenVars, entryVars>>
    \/ CleanupTask /\ UNCHANGED <<tokenVars, entryVars>>
    \/ \E c \in CycleIds :
          (\A d \in CycleIds : cycles[d].pc = "idle")
             /\ PollTick(c) /\ UNCHANGED <<tokenVars, entryVars>>
    \/ \E c \in CycleIds : QueryReturns(c) /\ UNCHANGED <<tokenVars, entryVars>>
    \/ \E c \in CycleIds : QueryFails(c) /\ UNCHANGED <<tokenVars, entryVars>>
    \/ \E c \in CycleIds : EmailSent(c) /\ UNCHANGED <<tokenVars, entryVars>>
    \/ \E c \in CycleIds : EmailFailed(c) /\ UNCHANGED <<tokenVars, entryVars>>
    \/ \E c \in CycleIds : CodeNoteSettled(c) /\ UNCHANGED <<tokenVars, entryVars>>
    \/ \E c \in CycleIds : NoteAdded(c) /\ UNCHANGED <<tokenVars, entryVars>>
    \/ \E c \in CycleIds : NoteFailed(c) /\ UNCHANGED <<tokenVars, entryVars>>
    \/ \E c \in CycleIds : HandlerErrorReported(c) /\ UNCHANGED <<tokenVars, entryVars>>
    \/ \E c \in CycleIds : CycleErrorReported(c) /\ UNCHANGED <<tokenVars, entryVars>>
    \/ \E timer \in pendingTimers : TimerFires(timer) /\ UNCHANGED <<tokenVars, entryVars>>
    \/ \E timer \in lockCalls : LockSucceeded(timer) /\ UNCHANGED <<tokenVars, entryVars>>
    \/ \E timer \in lockCalls : LockFailed(timer) /\ UNCHANGED <<tokenVars, entryVars>>
    \/ TickEngine /\ UNCHANGED <<tokenVars, entryVars>>
    \/ DayPasses /\ UNCHANGED <<tokenVars, entryVars>>

\* The engine with the handler of POST /webhook/amelia/booking, in
\* behaviours whose poll cycles do not overlap.
NextWebhook ==
    \/ InitializeSucceeds /\ UNCHANGED <<tokenVars, entryVars>>
    \/ Start /\ UNCHANGED <<tokenVars, entryVars>>
    \/ \E a \in WebhookAppointments : WebhookReceived(a) /\ UNCHANGED <<tokenVars, entryVars>>
    \/ HookEmailSent /\ UNCHANGED <<tokenVars, entryVars>>
    \/ HookScheduleAndNote /\ UNCHANGED <<tokenVars, entryVars>>
    \/ HookNoteSettled /\ UNCHANGED <<tokenVars, entryVars>>
    \/ HookErrorReported /\ UNCHANGED <<tokenVars, entryVars>>
    \/ \E c \in CycleIds :
          (\A d \in CycleIds : cycles[d].pc = "idle")
             /\ PollTick(c) /\ UNCHANGED <<tokenVars, entryVars>>
    \/ \E c \in CycleIds : QueryReturns(c) /\ UNCHANGED <<tokenVars, entryVars>>
    \/ \E c \in CycleIds : QueryFails(c) /\ UNCHANGED <<tokenVars, entryVars>>
    \/ \E c \in CycleIds : EmailSent(c) /\ UNCHANGED <<tokenVars, entryVars>>
    \/ \E c \in CycleIds : EmailFailed(c) /\ UNCHANGED <<tokenVars, entryVars>>
    \/ \E c \in CycleIds : CodeNoteSettled(c) /\ UNCHANGED <<tokenVars, entryVars>>
    \/ \E c \in CycleIds : NoteAdded(c) /\ UNCHANGED <<tokenVars, entryVars>>
    \/ \E c \in CycleIds : NoteFailed(c) /\ UNCHANGED <<tokenVars, entryVars>>
    \/ \E c \in CycleIds : HandlerErrorReported(c) /\ UNCHANGED <<tokenVars, entryVars>>
    \/ \E c \in CycleIds : CycleErrorReported(c) /\ UNCHANGED <<tokenVars, entryVars>>
    \/ \E timer \in pendingTimers : TimerFires(timer) /\ UNCHANGED <<tokenVars, entryVars>>
    \/ \E timer \in lockCalls : LockSucceeded(timer) /\ UNCHANGED <<tokenVars, entryVars>>
    \/ \E timer \in lockCalls : LockFailed(timer) /\ UNCHANGED <<tokenVars, entryVars>>
    \/ TickEngine /\ UNCHANGED <<tokenVars, entryVars>>

\* The calendar revision of the engine: main() of src/src/index.js calls
\* initialize() and then start(); stop() and start() can be called again.
NextCalendar ==
    \/ CalendarInitialize /\ UNCHANGED <<tokenVars, entryVars>>
    \/ CalendarStart /\ UNCHANGED <<tokenVars, entryVars>>
    \/ CalendarStop /\ UNCHANGED <<tokenVars, entryVars>>
    \/ \E c \in CycleIds : EventsPollTick(c) /\ UNCHANGED <<tokenVars, entryVars>>
    \/ \E c \in CycleIds : EventsQueryReturns(c) /\ UNCHANGED <<tokenVars, entryVars>>
    \/ \E c \in CycleIds : EventsQueryFails(c) /\ UNCHANGED <<tokenVars, entryVars>>
    \/ \E c \in CycleIds : DoorUnlocked(c) /\ UNCHANGED <<tokenVars, entryVars>>
    \/ \E c \in CycleIds : UnlockFailed(c) /\ UNCHANGED <<tokenVars, entryVars>>
    \/ \E c \in CycleIds : ConfirmationSettled(c) /\ UNCHANGED <<tokenVars, entryVars>>
    \/ \E c \in CycleIds : EventErrorReported(c) /\ UNCHANGED <<tokenVars, entryVars>>
    \/ \E timer \in pendingTimers : EventTimerFires(timer) /\ UNCHANGED <<tokenVars, entryVars>>
    \/ \E timer \in lockCalls : EventLockSucceeded(timer) /\ UNCHANGED <<tokenVars, entryVars>>
    \/ \E timer \in lockCalls : EventLockFailed(timer) /\ UNCHANGED <<tokenVars, entryVars>>
    \/ TickEngine /\ UNCHANGED <<tokenVars, entryVars>>

\* The calendar revision with its hourly cleanup job.
NextCalendarCleanup ==
    \/ CalendarInitialize /\ UNCHANGED <<tokenVars, entryVars>>
    \/ CalendarStart /\ UNCHANGED <<tokenVars, entryVars>>
    \/ CalendarStop /\ UNCHANGED <<tokenVars, entryVars>>
    \/ CalendarCleanupTask /\ UNCHANGED <<tokenVars, entryVars>>
    \/ \E c \in CycleIds : EventsPollTick(c) /\ UNCHANGED <<tokenVars, entryVars>>
    \/ \E c \in CycleIds : EventsQueryReturns(c) /\ UNCHANGED <<tokenVars, entryVars>>
    \/ \E c \in CycleIds : EventsQueryFails(c) /\ UNCHANGED <<tokenVars, entryVars>>
    \/ \E c \in CycleIds : DoorUnlocked(c) /\ UNCHANGED <<tokenVars, entryVars>>
    \/ \E c \in CycleIds : UnlockFailed(c) /\ UNCHANGED <<tokenVars, entryVars>>
    \/ \E c \in CycleIds : ConfirmationSettled(c) /\ UNCHANGED <<tokenVars, entryVars>>
    \/ \E c \in CycleIds : EventErrorReported(c) /\ UNCHANGED <<tokenVars, entryVars>>
    \/ \E timer \in pendingTimers : EventTimerFires(timer) /\ UNCHANGED <<tokenVars, entryVars>>
    \/ \E timer \in lockCalls : EventLockSucceeded(timer) /\ UNCHANGED <<tokenVars, entryVars>>
    \/ \E timer \in lockCalls : EventLockFailed(timer) /\ UNCHANGED <<tokenVars, entryVars>>
    \/ TickEngine /\ UNCHANGED <<tokenVars, entryVars>>

\* The door code endpoint with the Code Generator.
NextEntry ==
    \/ \E i \in 1 .. Len(Appointments) :
          DoorCodeIssued(Appointments[i]) /\ UNCHANGED <<tokenVars, engineVars>>
    \/ \E code \in PresentableCodes :
          CodeSubmitted(code) /\ UNCHANGED <<tokenVars, engineVars>>
    \/ ActiveQueryReturns /\ UNCHANGED <<tokenVars, engineVars>>
    \/ ActiveQueryFails /\ UNCHANGED <<tokenVars, engineVars>>
    \/ TickEntry /\ UNCHANGED <<tokenVars, engineVars>>

\* The Access Validator and its HTTP handler.
SpecTokens == InitValidator /\ [][NextTokens]_vars

\* The Code Generator.
SpecGen == Init /\ [][NextGen]_vars

\* The acceptance test of the Code Generator.
SpecSecure == InitSecure /\ [][NextSecure]_vars

\* The Code Generator with a filled usedCodes set.
SpecEvict == InitEvict /\ [][NextEvict]_vars

\* The Orchestrator, with the Code Generator it calls.
SpecEngine == Init /\ [][NextEngine]_vars

\* The Orchestrator with stop() and performCleanupTasks().
SpecLifecycle == Init /\ [][NextLifecycle]_vars

\* The Orchestrator with performCleanupTasks() over several days.
SpecRetention == Init /\ [][NextRetention]_vars

\* The Orchestrator with its webhook.
SpecWebhook == Init /\ [][NextWebhook]_vars

\* The calendar revision of the Orchestrator.
SpecCalendar == Init /\ [][NextCalendar]_vars

\* The calendar revision on a running event loop: the clock advances, a
\* timer whose delay has passed runs its callback, and a settled email
\* promise resumes the handler that awaits it.
FairCalendar ==
    /\ WF_vars(TickEngine /\ UNCHANGED <<tokenVars, entryVars>>)
    /\ WF_vars(\E timer \in pendingTimers :
                  EventTimerFires(timer) /\ UNCHANGED <<tokenVars, entryVars>>)
    /\ WF_vars(\E c \in CycleIds :
                  ConfirmationSettled(c) /\ UNCHANGED <<tokenVars, entryVars>>)

SpecCalendarFair == Init /\ [][NextCalendar]_vars /\ FairCalendar

\* The calendar revision with performCleanupTasks().
SpecCalendarCleanup == InitCalendarCleanup /\ [][NextCalendarCleanup]_vars

\* The door code endpoint.
SpecEntry == Init /\ [][NextEntry]_vars

-----------------------------------------------------------------------------
(* Properties of the Access Validator (checked under SpecTokens) *)

\* The credential the validation of the last step looked at, before the call.
PreOf(obs) == CHOOSE d \in obs.pre : TRUE

\* The store the validation of the last step worked on.
StoreOf(obs) == IF obs.kind = "token" THEN activeTokens ELSE activeCodes

\* C1: a token is granted at most once: no token is ever granted twice, a
\* token that has been granted keeps used = true for as long as it is stored,
\* and a presentment of a token whose used flag is true is never granted.
C1_GrantedAtMostOnce ==
    /\ \A t \in Tokens : grantCount[t] <= 1
    /\ \A t \in Tokens :
          (grantCount[t] > 0 /\ MapHas(activeTokens, t)) => activeTokens[t].used
    /\ (lastValidation.kind = "token" /\ lastValidation.pre # {}
          /\ PreOf(lastValidation).used) => ~lastValidation.valid

\* C1 witness: a token that was granted before is presented again, after its
\* expiry sweep has removed it, and is denied.
C1_Witness ==
    /\ lastValidation.kind = "token"
    /\ lastValidation.grantedBefore
    /\ lastValidation.pre = {}
    /\ ~lastValidation.valid
    /\ grantCount[lastValidation.key] = 1

\* C2 as stated: after a grant, every later presentment of the token is denied
\* with the reason "already used", also after the expiry sweep has run.
C2_AlwaysAlreadyUsed ==
    lastValidation.grantedBefore =>
        (~lastValidation.valid /\ lastValidation.reason = "Token already used")

\* C2 as amended: after a grant, every later presentment of the token is
\* denied; the reason is "Token already used" for as long as the token is
\* stored (also after validUntil has passed, never "Token expired") and
\* "Token not found" once the expiry sweep has removed it.
C2_DeniedAfterGrant ==
    lastValidation.grantedBefore =>
        /\ ~lastValidation.valid
        /\ lastValidation.reason =
              IF lastValidation.pre # {} THEN "Token already used"
                                         ELSE "Token not found"

\* C2 witness: a granted token is presented again after validUntil, before its
\* sweep has run, and the answer is "already used".
C2_Witness ==
    /\ lastValidation.grantedBefore
    /\ lastValidation.pre # {}
    /\ now > AccessEnd(PreOf(lastValidation))
    /\ lastValidation.reason = "Token already used"

\* C3: presenting a known, unused token or code before validFrom or after
\* validUntil is denied and leaves the credential as it was (used = false, no
\* usedAt), and presenting it anywhere in [validFrom, validUntil], both ends
\* included, is granted.
C3_WindowFrame ==
    (lastValidation.kind \in {"token", "code"} /\ lastValidation.pre # {}
        /\ ~PreOf(lastValidation).used) =>
        LET d == PreOf(lastValidation)
            store == StoreOf(lastValidation)
            key == lastValidation.key
        IN  /\ (now < AccessStart(d) \/ now > AccessEnd(d)) =>
                  /\ ~lastValidation.valid
                  /\ MapHas(store, key)
                  /\ store[key] = d
                  /\ ~store[key].used
                  /\ "usedAt" \notin DOMAIN store[key]
            /\ (AccessStart(d) <= now /\ now <= AccessEnd(d)) =>
                  /\ lastValidation.valid
                  /\ store[key].used
                  /\ store[key].usedAt = now

\* C3 witness: a credential that was denied outside its window is granted
\* later, exactly at validUntil.
C3_Witness ==
    /\ lastValidation.kind \in {"token", "code"}
    /\ lastValidation.valid
    /\ <<lastValidation.kind, lastValidation.key>> \in rejectedOutside
    /\ now = AccessEnd(PreOf(lastValidation))

\* C4: of two presentments of the same token handled concurrently, at most one
\* is granted: no two requests are suspended in unlockDoor for the same token,
\* and a presentment made while another request is suspended there for the
\* same token is denied, as already used while the token is stored.
C4_OneGrantUnderConcurrency ==
    /\ \A r1, r2 \in Requests :
          (r1 # r2 /\ requests[r1].pc = "unlocking"
             /\ requests[r2].pc = "unlocking")
          => requests[r1].token # requests[r2].token
    /\ lastValidation.concurrent # {} =>
          /\ ~lastValidation.valid
          /\ lastValidation.pre # {} =>
                lastValidation.reason = "Token already used"

\* C4 witness: a second request presents the token while the first, granted,
\* request is still suspended in unlockDoor.
C4_Witness ==
    /\ lastValidation.concurrent # {}
    /\ lastValidation.reason = "Token already used"
    /\ \E r \in Requests : requests[r].pc = "unlocking"
                           /\ requests[r].token = lastValidation.key

-----------------------------------------------------------------------------
(* Properties of the Code Generator (checked under SpecGen) *)

\* a strictly ascending or strictly descending run of consecutive digits
MonotonicRun(code) ==
    Len(code) >= 2 /\ (IsAscending(code) \/ IsDescending(code))

\* C5: the code generateCode returns is never in the weak-pattern blacklist
\* and never a strictly ascending or descending digit run, on the random path
\* and on the fallback path.
C5_NeverWeak ==
    genObs.kind = "generate" =>
        (~genObs.blacklisted /\ ~MonotonicRun(genObs.code))

\* C6: the code generateCode returns is not in usedCodes when the call is
\* made and is in usedCodes when the call returns.
C6_FreshThenTracked ==
    genObs.kind = "generate" => (~genObs.wasUsed /\ genObs.tracked)

\* C7: no two generateCode calls return the same code.
C7_NeverRepeated ==
    genObs.kind = "generate" => ~genObs.repeated

\* C8: generateCode returns a string of exactly `length` decimal digits.
C8_WellFormed ==
    genObs.kind = "generate" =>
        /\ Len(genObs.code) = genObs.length
        /\ \A i \in 1 .. Len(genObs.code) : genObs.code[i] \in 0 .. 9

\* C9: validateCode(code, reservationId) is true if and only if code is the
\* code most recently returned by generateCode for that reservationId.
C9_ValidIffLatest ==
    genObs.kind = "validate" =>
        (genObs.result <=>
            (MapHas(latestIssued, genObs.appointmentId)
                /\ latestIssued[genObs.appointmentId] = genObs.code))

-----------------------------------------------------------------------------
(* Properties of the Orchestrator (checked under SpecEngine) *)

\* the lock timers of an occurrence that are armed and have not expired
ArmedTimers(k) == { timer \in pendingTimers : timer.key = k }

\* C10: as long as poll cycles have not overlapped, a reservation occurrence
\* (id and start time) the Booking Source returns in several poll cycles is
\* handled at most once: at most one code is generated for it, at most one
\* confirmation email is sent, at most one lock timer is armed, and at most
\* one armed lock timer exists for it at any time.
C10_HandledAtMostOnce ==
    ~overlapped =>
        \A k \in AppointmentKeys :
            /\ handled[k].codes <= 1
            /\ handled[k].emails <= 1
            /\ handled[k].timers <= 1
            /\ Cardinality(ArmedTimers(k)) <= 1

\* the poll cycles in progress: called and not yet settled
CyclesInProgress == { c \in CycleIds : cycles[c].pc # "idle" }

\* C11: at any instant at most one poll cycle is in progress: a poll tick
\* that fires while an earlier cycle is suspended at an I/O call does not
\* start a second cycle next to it.
C11_NoInterleaving == Cardinality(CyclesInProgress) <= 1

\* the appointments a cycle that is reporting an error has left unhandled:
\* those behind the one it was handling whose key is in no processed set
LeftUnhandled(c) ==
    IF cycles[c].todo = <<>> THEN <<>>
    ELSE SkipProcessed(Tail(cycles[c].todo), processedAppointments)

\* C12: when handling one reservation of a poll cycle fails, the cycle does
\* not end with reservations it was given still unhandled: a cycle that is
\* reporting its error on the way out has no appointment left behind the
\* failed one.
C12_RemainderStillHandled ==
    \A c \in CycleIds :
        cycles[c].pc = "reportingCycle" => LeftUnhandled(c) = <<>>

-----------------------------------------------------------------------------
(* Properties of the Orchestrator's shutdown (checked under SpecLifecycle) *)

HeldByEngine(appointmentId) ==
    \/ appointmentId \in DOMAIN activeLockTimers
    \/ \E k \in processedAppointments : k[1] = appointmentId

\* C15: for every lock timer stop() has cancelled, the engine state holds,
\* once stop() has returned and also after a later start(), a record that
\* the appointment lost its scheduled lock.  stop() writes no such record;
\* the formula asks only that some field of the engine still names the
\* appointment.
C15_StopRecordsLostLocks ==
    stopReturned =>
        \A timer \in cancelledTimers :
            timer.by = "stop" => HeldByEngine(timer.appointmentId)

-----------------------------------------------------------------------------
(* Properties of the Orchestrator's webhook (checked under SpecWebhook) *)

\* C16: an appointment whose status is canceled when a poll returns it or a
\* webhook delivers it is never handled: no code is generated for it, no
\* confirmation email is sent and no lock timer is armed.
C16_CanceledNeverHandled ==
    \A i \in 1 .. Len(Appointments) :
        Appointments[i].status = "canceled" =>
            handled[appointmentKey(Appointments[i])]
                = [codes |-> 0, unlocks |-> 0, emails |-> 0, timers |-> 0]

-----------------------------------------------------------------------------
(* Properties of the Orchestrator's error handling (checked under          *)
(* SpecEngine)                                                             *)

\* C18: when lockDoor() throws inside the callback of a lock timer, the
\* callback catches the error and an error notification is attempted for
\* it.
C18_FailedLockReported ==
    \A failure \in failedLocks : failure.notifications >= 1

\* the errors a poll cycle can be carrying, and the sendErrorNotification
\* calls it has made when it carries them
ReportsDue(error) ==
    CASE error = "none" -> {0}
      [] error = "query" -> {1}
      [] error = "note" -> {1, 2}
      [] OTHER -> {}

\* C19: a sendErrorNotification call that fails is swallowed: the failure
\* never becomes the error a poll cycle or a handler carries on, and no
\* notification is attempted for it, so that a cycle makes one attempt for a
\* failed query and two (handler and cycle) for a failed appointment.
C19_NotificationFailureSwallowed ==
    /\ \A c \in CycleIds :
          /\ cycles[c].error \in {"none", "query", "note"}
          /\ cycles[c].notified \in ReportsDue(cycles[c].error)
    /\ engineObs.kind = "cycleSettled" =>
          /\ engineObs.error \in {"none", "query", "note"}
          /\ engineObs.notified =
                (CASE engineObs.error = "none" -> 0
                   [] engineObs.error = "query" -> 1
                   [] engineObs.error = "note" -> 2)

\* a sendErrorNotification call of a handler has just been rejected and the
\* cycle goes on to its own catch with the error of the appointment
C19_Witness ==
    /\ engineObs.kind = "errorNotification"
    /\ engineObs.result = "rejected"
    /\ cycles[engineObs.cycle].pc = "reportingCycle"
    /\ cycles[engineObs.cycle].error = "note"

-----------------------------------------------------------------------------
(* Properties of the calendar revision (checked under SpecCalendar) *)

\* C14: a start() call made after initialize() has succeeded (the jobs
\* exist) leaves the poll, cleanup and health check jobs started and
\* isRunning true; it skips starting them only when they are started
\* already.
C14_StartArmsJobs ==
    (engineObs.kind = "start" /\ engineObs.jobsBefore # "none") =>
        /\ engineObs.jobs = "started"
        /\ engineObs.isRunning

\* C20: a poll cycle whose Booking Source query has failed resolves
\* normally, having handled no reservation, added no dedup key and made one
\* sendErrorNotification call.
C20_FailedQueryReportedOnce ==
    (engineObs.kind = "cycleSettled" /\ engineObs.error = "query") =>
        /\ engineObs.started = 0
        /\ engineObs.added = 0
        /\ engineObs.notified = 1

-----------------------------------------------------------------------------
(* Properties of the Orchestrator's lock timers (checked under SpecEngine) *)

\* C21: an appointment is never marked processed (its key added to
\* processedAppointments) without a lock timer having been armed for it.
C21_ProcessedHasTimer ==
    \A k \in processedAppointments : handled[k].timers >= 1

-----------------------------------------------------------------------------
(* Properties of the door code endpoint (checked under SpecEntry) *)

\* the appointments in progress at instant t: start <= t <= end
InProgress(t) ==
    { Appointments[i] : i \in
        { j \in 1 .. Len(Appointments) :
            /\ Appointments[j].startTime <= t
            /\ Appointments[j].endTime >= t } }

C23_DoorCodeSingleUse ==
    (entryObs.kind = "codeEntry" /\ entryObs.repeat) => ~entryObs.unlock

-----------------------------------------------------------------------------
(* Properties of GET /access/unlock (checked under SpecTokens) *)

\* the requests that call unlockDoor() in the step: those that were not
\* suspended in it before the step and are after it
NewUnlockCalls ==
    { r \in Requests :
        requests[r].pc # "unlocking" /\ requests'[r].pc = "unlocking" }

\* C24: GET /access/unlock calls unlockDoor() only after the validator has
\* granted the presentment, which it does only for a stored token that was
\* unused and inside its window; a request without a token, or with an
\* unknown, used, too early or expired one, makes no call, and a granted
\* presentment makes one call.
C24_UnlockOnlyWhenGranted ==
    [][ /\ \A r \in NewUnlockCalls :
              /\ lastValidation'.kind = "token"
              /\ lastValidation'.valid
              /\ lastValidation'.key = requests'[r].token
              /\ lastValidation'.pre # {}
              /\ \A data \in lastValidation'.pre :
                    /\ ~data.used
                    /\ ~TooEarly(data, now)
                    /\ ~Expired(data, now)
        /\ Cardinality(NewUnlockCalls) <= 1
        /\ (lastValidation'.kind = "token" /\ lastValidation'.valid)
              => Cardinality(NewUnlockCalls) = 1
      ]_vars

\* a request has just been granted and is suspended in unlockDoor() while
\* the other request, denied, is not
C24_Witness ==
    /\ lastValidation.kind = "token"
    /\ lastValidation.valid
    /\ \E r \in Requests :
          /\ requests[r].pc = "unlocking"
          /\ requests[r].token = lastValidation.key
          /\ \A q \in Requests \ {r} : requests[q].pc = "idle"
    /\ rejectedOutside # {}

-----------------------------------------------------------------------------
(* Properties of the calendar event filter (checked under SpecCalendar) *)

\* C25: an event without an attendee email is never treated as a booking:
\* every event for which the door was unlocked or a confirmation was sent
\* has an attendee email, and is one that the mock calendar service's
\* isValidBookingEvent accepts as well.
C25_NoAttendeeNeverBooked ==
    \A i \in 1..Len(CalendarEvents) :
       LET event == CalendarEvents[i]
           h == handled[eventKey(event)]
       IN  (h.unlocks > 0 \/ h.emails > 0)
              => /\ event.hasAttendeeEmail
                 /\ MockIsValidBookingEvent(event)

-----------------------------------------------------------------------------
(* Properties of the calendar dedup across cleanup runs (checked under
   SpecCalendarCleanup) *)

\* C26: over polls and cleanup runs, the door is unlocked at most once for
\* each event occurrence.
C26_EventUnlockedOnce ==
    \A i \in 1..Len(CalendarEvents) :
       handled[eventKey(CalendarEvents[i])].unlocks <= 1

-----------------------------------------------------------------------------
(* Properties of the active-timer set (checked under SpecEngine) *)

\* the timers that are scheduled and have not completed: those that have
\* neither fired nor been cancelled, and those whose callback is running
LiveTimers == pendingTimers \cup lockCalls

\* C27: the active-timer set holds no entry for a timer whose callback has
\* run to completion, whether lockDoor() succeeded or raised, and its size
\* is the number of timers that are scheduled and have not completed.
C27_ActiveSetIsLiveTimers ==
    /\ \A id \in DOMAIN activeLockTimers : activeLockTimers[id] \in LiveTimers
    /\ Cardinality(DOMAIN activeLockTimers) = Cardinality(LiveTimers)

-----------------------------------------------------------------------------
(* Properties of the lock time (checked under SpecEngine) *)

\* the end of the reservation a timer was armed for
ReservationEnd(timer) ==
    LET i == CHOOSE j \in 1..Len(Appointments) :
                 Appointments[j].id = timer.appointmentId
    IN  Appointments[i].endTime

\* C28: a pending lock timer is due at the end of its reservation plus the
\* buffer time, with no session duration added, whenever that instant is at
\* least the minimum delay ahead (it then was when the timer was armed).
C28_LockDueAtEndPlusBuffer ==
    \A timer \in pendingTimers :
       ReservationEnd(timer) + BufferTimeMinutes >= now + MinLockDelayMinutes
          => timer.due = ReservationEnd(timer) + BufferTimeMinutes

-----------------------------------------------------------------------------
(* Properties of the periodic cleanup (checked under SpecRetention) *)

\* C29: when performCleanupTasks() has run, processedAppointments holds no
\* key whose start time lies more than 24 hours back, and the generator's
\* codeHistory holds no entry generated more than 24 hours ago.
C29_CleanupLeavesNothingOld ==
    engineObs.kind = "cleanup"
       => /\ \A k \in processedAppointments :
                ~(k[2] < now - ProcessedRetentionMinutes)
          /\ \A a \in DOMAIN codeHistory :
                ~(codeHistory[a].generatedAt < now - HistoryRetentionMinutes)

-----------------------------------------------------------------------------
(* Properties of the usedCodes set (checked under SpecEvict) *)

\* usedCodes with the code of the call just made inserted: at the end when
\* the call took the random path (its code was not in the set), unchanged
\* when it fell back
AfterInsertion ==
    IF genObs'.path = "random" /\ ~genObs'.wasUsed
    THEN Append(usedCodes, genObs'.code)
    ELSE usedCodes

\* C30: when a generateCode call has returned, usedCodes holds at most
\* UsedCodesCap codes; an insertion that makes its size n exceed the cap
\* leaves exactly the floor(n/2) most recently inserted codes, in order, and
\* any other call leaves the set with the inserted code and nothing removed.
C30_UsedCodesHalvedOnOverflow ==
    [][ genObs'.kind = "generate" =>
          LET n == Len(AfterInsertion)
          IN  /\ Len(usedCodes') <= UsedCodesCap
              /\ IF n > UsedCodesCap
                 THEN /\ Len(usedCodes') = n \div 2
                      /\ \A i \in 1 .. (n \div 2) :
                            usedCodes'[i] = AfterInsertion[n - (n \div 2) + i]
                 ELSE usedCodes' = AfterInsertion
      ]_vars

\* a call has returned whose insertion overflowed the set: half is left, the
\* code of the call last
C30_Witness ==
    /\ genObs.kind = "generate"
    /\ genObs.path = "random"
    /\ Len(usedCodes) = (UsedCodesCap + 1) \div 2
    /\ usedCodes[Len(usedCodes)] = genObs.code
    /\ usedCodes[1] = EarlierCodes(UsedCodesCap)[UsedCodesCap + 2 - Len(usedCodes)]

-----------------------------------------------------------------------------
(* Properties of isCodeSecure (checked under SpecSecure) *)

\* the digits of the code form an arithmetic sequence with common
\* difference d (every code of fewer than two digits does)
HasStep(code, d) == \A i \in 2 .. Len(code) : code[i] = code[i - 1] + d

\* C31 as stated: a candidate is accepted if and only if it is not in
\* usedCodes, not in the blacklist, and not an arithmetic sequence of any
\* common difference.
C31_RejectsEveryArithmeticCode ==
    genObs.kind = "secure"
       => (genObs.result <=>
             /\ ~genObs.used
             /\ ~genObs.blacklisted
             /\ ~\E d \in -9 .. 9 : HasStep(genObs.code, d))

\* C31: a candidate is accepted if and only if it is not in usedCodes, not
\* in the blacklist, and its digits do not go up by one at every position
\* or down by one at every position.
C31_RejectsUnitRuns ==
    genObs.kind = "secure"
       => (genObs.result <=>
             /\ ~genObs.used
             /\ ~genObs.blacklisted
             /\ ~\E d \in {-1, 1} : HasStep(genObs.code, d))

\* a code that goes up by two at every position was accepted
C31_Witness ==
    /\ genObs.kind = "secure"
    /\ genObs.result
    /\ Len(genObs.code) = 3
    /\ HasStep(genObs.code, 2)

-----------------------------------------------------------------------------
(* Properties of generateAccessCode (checked under SpecTokens) *)

\* C32: issuing an access code leaves every stored code record as it was
\* (no record of another reservation is overwritten, no used flag goes back
\* to false), and a code record is deleted by a sweep only once its own
\* window has ended.
C32_IssuingLeavesOthersAlone ==
    [][ /\ codesIssued' = codesIssued + 1
           => \A c \in DOMAIN activeCodes :
                 /\ c \in DOMAIN activeCodes'
                 /\ activeCodes'[c] = activeCodes[c]
        /\ \A c \in (DOMAIN activeCodes) \ (DOMAIN activeCodes') :
              now >= AccessEnd(activeCodes[c])
      ]_vars

-----------------------------------------------------------------------------
(* Properties of the webhook path (checked under SpecWebhook) *)

\* C33: when handleBookingAppointment has returned without error to the
\* handler of POST /webhook/amelia/booking, the key of the appointment is in
\* processedAppointments, so that no later poll cycle handles it again; and
\* each appointment is given at most one code, one confirmation email and one
\* lock timer by webhook and polls together.
C33_WebhookRecordsProcessed ==
    [][ /\ (hook.pc = "noting" /\ hook'.pc = "idle")
           => appointmentKey(hook.appointment) \in processedAppointments'
        /\ \A k \in AppointmentKeys :
              /\ handled'[k].codes <= 1
              /\ handled'[k].emails <= 1
              /\ handled'[k].timers <= 1
      ]_vars

-----------------------------------------------------------------------------
(* Properties of handlers that outlive stop() (checked under SpecLifecycle) *)

\* C34: once stop() has run, and until the engine is started again, no lock
\* timer is armed: a poll cycle that was suspended in an await when stop()
\* ran does not call setTimeout when it resumes.
C34_NoTimerArmedAfterStop ==
    [][ (stops > 0 /\ cronJobs = "stopped")
           => /\ nextTimer' = nextTimer
              /\ pendingTimers' \subseteq pendingTimers
      ]_vars

-----------------------------------------------------------------------------
(* Properties of timer replacement (checked under SpecEngine) *)

-----------------------------------------------------------------------------
(* Properties of a failed unlock (checked under SpecTokens) *)

\* C36 as stated: once a token has been granted, whether its unlockDoor()
\* call succeeds, fails or raises, every later presentment of it is denied
\* as already used.
C36_DeniedAsAlreadyUsed ==
    (lastValidation.kind = "token" /\ lastValidation.grantedBefore)
       => lastValidation.reason = "Token already used"

\* C36: a token is marked used by the validation that grants it, before
\* unlockDoor() is attempted, and the mark is not taken back when the call
\* fails or raises: the token stays used for as long as it is stored, and
\* every later presentment of it is denied, as already used while it is
\* stored and as not found once its expiry sweep has removed it.
C36_FailedUnlockKeepsTokenUsed ==
    /\ \A r \in Requests :
          (requests[r].pc = "unlocking" /\ MapHas(activeTokens, requests[r].token))
             => activeTokens[requests[r].token].used
    /\ lastValidation.kind = "unlockSettled"
          => \A data \in lastValidation.pre : data.used
    /\ \A t \in Tokens :
          (grantCount[t] > 0 /\ MapHas(activeTokens, t)) => activeTokens[t].used
    /\ (lastValidation.kind = "token" /\ lastValidation.grantedBefore)
          => /\ ~lastValidation.valid
             /\ lastValidation.reason =
                   IF lastValidation.pre # {} THEN "Token already used"
                   ELSE "Token not found"

\* an unlockDoor() call has just failed and the token it was made for is
\* stored and used
C36_Witness ==
    /\ lastValidation.kind = "unlockSettled"
    /\ lastValidation.reason = "failed"
    /\ MapHas(activeTokens, lastValidation.key)
    /\ activeTokens[lastValidation.key].used

-----------------------------------------------------------------------------
(* Properties of the dedup key and failing handlers (checked under          *)
(* SpecEngine)                                                              *)

\* the cycles whose handleBookingAppointment call for key k is awaiting its
\* closing note, the last await of the handler
ClosingNote(k) ==
    { c \in CycleIds :
        cycles[c].pc = "noting" /\ appointmentKey(Head(cycles[c].todo)) = k }

\* the appointments a poll returning now would hand to the loop that are
\* not yet processed
Unprocessed ==
    SkipProcessed(getAppointmentsStartingSoon(now), processedAppointments)

-----------------------------------------------------------------------------
(* Properties of the auto-lock after an automatic unlock (checked under     *)
(* SpecCalendarFair)                                                        *)

\* the handles scheduleAutoLock can give out in one behaviour
TimerHandles == 1 .. (MaxPolls * Len(CalendarEvents))

TimerPending(h) == \E timer \in pendingTimers : timer.handle = h

LockCalled(h) == \E timer \in lockCalls : timer.handle = h

ClearedByStop(h) ==
    \E timer \in cancelledTimers : timer.handle = h /\ timer.by = "stop"

ClearedByReschedule(h) ==
    \E timer \in cancelledTimers : timer.handle = h /\ timer.by = "reschedule"

\* C38: in the calendar revision the step in which handleBookingEvent goes on
\* after the confirmation email, sent or failed, arms a lock timer for the
\* event, due LockDurationMinutes later and held in activeLockTimers; and
\* every armed timer leads to a lockDoor() call, unless stop() cleared it or
\* a later scheduleAutoLock for the same event replaced it by a new timer.
C38_UnlockIsFollowedByLock ==
    /\ [][ \A c \in CycleIds :
              (cycles[c].pc = "emailing" /\ cycles'[c] # cycles[c]
                 /\ LockDurationMinutes > 0)
                 => LET event == Head(cycles[c].todo)
                        timer == [handle |-> nextTimer,
                                  appointmentId |-> event.id,
                                  key |-> eventKey(event),
                                  due |-> now + LockDurationMinutes]
                    IN  /\ handled[eventKey(event)].unlocks > 0
                        /\ timer \in pendingTimers' \ pendingTimers
                        /\ MapHas(activeLockTimers', event.id)
                        /\ activeLockTimers'[event.id] = timer
                        /\ \A old \in pendingTimers \ pendingTimers' :
                              old.appointmentId = event.id
         ]_vars
    /\ \A h \in TimerHandles :
          TimerPending(h) ~> (LockCalled(h) \/ ClearedByStop(h)
                                \/ ClearedByReschedule(h))

\* lockDoor() is being called for an event that was unlocked and whose
\* confirmation email failed
C38_Witness ==
    \E timer \in lockCalls :
       /\ handled[timer.key].unlocks = 1
       /\ handled[timer.key].emails = 0
       /\ handled[timer.key].timers = 1

-----------------------------------------------------------------------------
(* Properties of the pruning of dedup keys (checked under SpecRetention)    *)

\* the appointments of the Booking Source that have key k
Occurrences(k) ==
    { Appointments[i] : i \in { j \in 1 .. Len(Appointments) :
                                   appointmentKey(Appointments[j]) = k } }

\* C39: a key leaves processedAppointments only when its start time is more
\* than 24 hours back; no appointment with that key is returned by
\* getAppointmentsStartingSoon then or at any later instant; and no step
\* starts handling an appointment whose start is that far back.
C39_PruningNeverReenables ==
    [][ /\ \A k \in processedAppointments \ processedAppointments' :
              /\ k[2] < now - ProcessedRetentionMinutes
              /\ \A a \in Occurrences(k) : \A t \in now .. MaxGenNow :
                    ~InStartingSoonWindow(a, t)
        /\ \A k \in AppointmentKeys :
              handled'[k].codes > handled[k].codes
                 => ~(k[2] < now - ProcessedRetentionMinutes)
      ]_vars

\* performCleanupTasks() has just removed the key of an appointment that
\* was handled
C39_Witness ==
    /\ engineObs.kind = "cleanup"
    /\ \E k \in engineObs.toRemove :
          handled[k].codes >= 1 /\ k \notin processedAppointments

=============================================================================
